---- MODULE Spec2Model ----
(***************************************************************************)
(* A model of the kunyu interpreter: the recursive-descent parser of       *)
(* src/src/ast.c and the tree-walking evaluator of the interpreter source  *)
(* (src/unnamed/part_001), with the builtin registry of part_002.          *)
(*                                                                         *)
(* The evaluator is modelled as the C call stack made explicit: `stack` is *)
(* the sequence of activation records, the last one being the function     *)
(* that is running, and every step runs the running function up to its     *)
(* next call or to its return.  `ret` is the value the last return handed  *)
(* to its caller.  The parser is a pure function of the token sequence and *)
(* is modelled by recursive operators over a parser state record.  Spec is  *)
(* the evaluator on trees of statements, SpecParser the parser on token    *)
(* arrays, and SpecMain the run of main: a token array parsed and the tree *)
(* executed.                                                               *)
(*                                                                         *)
(* Conventions.  The keyword texts of the source are UTF-8 words; the      *)
(* model writes them with the glosses of the language description          *)
(* (variable, constant, if, else, loop, function, return, print).          *)
(* malloc/strdup/realloc are taken to succeed.  A number is an IEEE double *)
(* in the source and an exact fraction num/den here.                       *)
(***************************************************************************)
EXTENDS Integers, Sequences, FiniteSets, TLC

VARIABLES
    phase,           \* "idle" before interpreter_execute, "running", "done",
                     \* "crashed" when the process was killed by a signal
    root,            \* the AST handed to interpreter_execute
    result,          \* what interpreter_execute returned
    stack,           \* the C call stack of the evaluator, innermost last
    ret,             \* the return value of the function that returned last
    current_scope,   \* chain of scopes, innermost first
    function_table,  \* list of FunctionEntry, newest first
    builtin_funcs,   \* list of BuiltinFunc, newest first
    interpreter,     \* InterpreterContext: error, has_return, return_value
    output,          \* lines written by the print statement
    references,      \* the references counted in an object's ref_count that
                     \* no binding, slot or stored return value holds
    tokens,          \* parser input: the token array
    parsed,          \* parser output: [done, ast, error, current, dropped] and the nodes created, freed, returned
    heap,            \* the object system: the PyObjects allocated and who holds them
    lexer,           \* the lexer: source text, position, tokens added, error
    repl             \* the REPL: the input lines read so far

vars == <<phase, root, result, stack, ret, current_scope, function_table,
          builtin_funcs, interpreter, output, references, tokens, parsed, heap,
          lexer, repl>>

evalVars == <<phase, root, result, stack, ret, current_scope, function_table,
              builtin_funcs, interpreter, output, references>>

parseVars == <<tokens, parsed>>

\* The object system, the lexer and the REPL where a specification does not
\* run them.
otherVars == <<heap, lexer, repl>>

Unused == "unused"

-----------------------------------------------------------------------------
(* Bounds of the model *)

\* longest statement list appended to a prelude in a generated program
MaxStmts == 2

\* most phrases concatenated into a token sequence given to the parser
MaxPhrases == 3

-----------------------------------------------------------------------------
(* Error codes, runtime values *)

KUNYU_OK == "KUNYU_OK"

KUNYU_ERROR_PARSER == "KUNYU_ERROR_PARSER"

KUNYU_ERROR_RUNTIME == "KUNYU_ERROR_RUNTIME"

KUNYU_ERROR_MEMORY == "KUNYU_ERROR_MEMORY"

\* The C NULL pointer where a PyObject* is expected.
NULL == [type |-> "NULL", num |-> 0, den |-> 1, str |-> ""]

Abs(n) == IF n < 0 THEN -n ELSE n

RECURSIVE Gcd(_, _)
Gcd(a, b) == IF b = 0 THEN a ELSE Gcd(b, a % b)

\* py_number_new: a number object; the double is kept as a reduced fraction.
py_number_new(n, d) ==
    LET s == IF d < 0 THEN -1 ELSE 1
        g == Gcd(Abs(n), Abs(d))
    IN  [type |-> "TYPE_NUMBER", num |-> (s * n) \div g, den |-> (s * d) \div g,
         str |-> ""]

py_string_new(s) == [type |-> "TYPE_STRING", num |-> 0, den |-> 1, str |-> s]

\* py_list_new as the interpreter's programs see it: a list object (the
\* evaluator model does not track list contents).
py_list_new == [type |-> "TYPE_LIST", num |-> 0, den |-> 1, str |-> ""]

create_number_object(n, d) == py_number_new(n, d)

create_string_object(s) == py_string_new(s)

\* (int)x of a double: truncation toward zero.
IntCast(v) ==
    IF v.num >= 0 THEN v.num \div v.den ELSE -((-v.num) \div v.den)

\* C's % on ints: the remainder has the sign of the dividend.
CRem(a, b) ==
    IF a >= 0 THEN a % Abs(b) ELSE -((-a) % Abs(b))

\* atof on the numeral texts the model's programs use; any text that does not
\* start with a number converts to 0.
atof(text) ==
    CASE text = "0" -> py_number_new(0, 1)
      [] text = "1" -> py_number_new(1, 1)
      [] text = "2" -> py_number_new(2, 1)
      [] text = "3" -> py_number_new(3, 1)
      [] text = "4" -> py_number_new(4, 1)
      [] text = "5" -> py_number_new(5, 1)
      [] text = "6" -> py_number_new(6, 1)
      [] text = "0.5" -> py_number_new(1, 2)
      [] OTHER -> py_number_new(0, 1)

is_truthy(obj) ==
    IF obj = NULL THEN FALSE
    ELSE IF obj.type = "TYPE_NUMBER" THEN obj.num # 0
    ELSE IF obj.type = "TYPE_STRING" THEN obj.str # ""
    ELSE TRUE

\* object_to_string: "%.0f" for a number with no fractional part and "%g"
\* otherwise, the text of a string, a fixed text for any other object.  "%g"
\* is exact here for the halves ("0.5", "-2.5"); for another fraction the
\* model writes num/den in place of its decimal digits.
object_to_string(obj) ==
    IF obj = NULL THEN "null"
    ELSE IF obj.type = "TYPE_NUMBER"
         THEN IF obj.den = 1 THEN ToString(obj.num)
              ELSE IF obj.den = 2
              THEN (IF obj.num < 0 THEN "-" ELSE "")
                   \o ToString(Abs(obj.num) \div 2) \o ".5"
              ELSE ToString(obj.num) \o "/" \o ToString(obj.den)
    ELSE IF obj.type = "TYPE_STRING" THEN obj.str
    ELSE "[object]"

-----------------------------------------------------------------------------
(* The abstract syntax tree.  Every node is a record of one shape; the     *)
(* fields a node kind does not have are left at their defaults.  `kids`    *)
(* holds the node's children in the order of the struct's fields.          *)

Node(type, stmt_type, name, op, token_type, value, is_constant, params, kids) ==
    [type |-> type, stmt_type |-> stmt_type, name |-> name, op |-> op,
     token_type |-> token_type, value |-> value, is_constant |-> is_constant,
     params |-> params, kids |-> kids]

\* The AstNode* NULL.
NoNode == Node("NULL", "", "", "", "", "", FALSE, <<>>, <<>>)

\* Program: statements.
create_program(statements) ==
    Node("NODE_PROGRAM", "", "", "", "", "", FALSE, <<>>, statements)

\* ExpressionStmt: expr.  Its node type is NODE_PROGRAM, told apart from the
\* program by stmt_type.
create_expression_stmt(expr) ==
    Node("NODE_PROGRAM", "STMT_EXPRESSION", "", "", "", "", FALSE, <<>>, <<expr>>)

\* VarDeclStmt: name, initializer, is_constant.
create_var_decl(name, initializer, is_constant) ==
    Node("NODE_VARDECL", "STMT_VAR_DECL", name, "", "", "", is_constant, <<>>,
         <<initializer>>)

\* BlockStmt: statements.
create_block(statements) ==
    Node("NODE_BLOCK", "STMT_BLOCK", "", "", "", "", FALSE, <<>>, statements)

\* IfStmt: condition, then_branch, else_branch (NoNode when absent).
create_if(condition, then_branch, else_branch) ==
    Node("NODE_IF", "STMT_IF", "", "", "", "", FALSE, <<>>,
         <<condition, then_branch, else_branch>>)

\* LoopStmt: condition, body.
create_loop(condition, body) ==
    Node("NODE_LOOP", "STMT_LOOP", "", "", "", "", FALSE, <<>>, <<condition, body>>)

\* FunctionStmt: name, params, body.
create_function(name, params, body) ==
    Node("NODE_FUNCDECL", "STMT_FUNCTION", name, "", "", "", FALSE, params, <<body>>)

\* ReturnStmt: value.
create_return(value) ==
    Node("NODE_RETURN", "STMT_RETURN", "", "", "", "", FALSE, <<>>, <<value>>)

\* PrintStmt: value.
create_print(value) ==
    Node("NODE_PRINT", "STMT_PRINT", "", "", "", "", FALSE, <<>>, <<value>>)

\* LiteralExpr: token_type, value (the token's text).
create_literal(token_type, value) ==
    Node("NODE_LITERAL", "", "", "", token_type, value, FALSE, <<>>, <<>>)

\* VariableExpr: name.
create_variable(name) ==
    Node("NODE_IDENTIFIER", "", name, "", "", "", FALSE, <<>>, <<>>)

\* BinaryExpr: left, op, right.
create_binary(left, op, right) ==
    Node("NODE_BINARY", "", "", op, "", "", FALSE, <<>>, <<left, right>>)

\* CallExpr: name, args.
create_call(name, args) ==
    Node("NODE_CALL", "", name, "", "", "", FALSE, <<>>, args)

\* GroupingExpr: expr.
create_grouping(expr) ==
    Node("NODE_GROUPING", "", "", "", "", "", FALSE, <<>>, <<expr>>)

\* AssignExpr: name, value.
create_assign(name, value) ==
    Node("NODE_ASSIGN", "", name, "", "", "", FALSE, <<>>, <<value>>)

-----------------------------------------------------------------------------
(* The evaluator's machine state as one record, so that the C functions    *)
(* can be written as operators from state to state.                        *)

Cur ==
    [phase |-> phase, stack |-> stack, ret |-> ret,
     current_scope |-> current_scope, function_table |-> function_table, builtin_funcs |-> builtin_funcs,
     interpreter |-> interpreter, output |-> output, references |-> references]

Set(S) ==
    /\ phase' = S.phase
    /\ stack' = S.stack
    /\ ret' = S.ret
    /\ current_scope' = S.current_scope
    /\ function_table' = S.function_table
    /\ builtin_funcs' = S.builtin_funcs
    /\ interpreter' = S.interpreter
    /\ output' = S.output
    /\ references' = S.references

\* The FunctionEntry* NULL.
NoFunc == [name |-> "", params |-> <<>>, param_count |-> 0, body |-> NoNode]

\* One activation record: the running C function, its node argument, the
\* point it resumes at, and its locals (loop index i, left operand, the
\* FunctionEntry of a call, the evaluated builtin arguments).  depth records
\* the length of the scope chain when the function was entered.
Frame(fn, node, S) ==
    [fn |-> fn, node |-> node, pc |-> "start", i |-> 0, left |-> NULL,
     func |-> NoFunc, args |-> <<>>, depth |-> Len(S.current_scope)]

TopOf(S) == S.stack[Len(S.stack)]

\* The running function returns b (a bool) or v (a PyObject*) to its caller.
Return(S, b, v, void) ==
    [S EXCEPT !.stack = SubSeq(@, 1, Len(@) - 1),
              !.ret = [b |-> b, v |-> v, void |-> void]]

ReturnBool(S, b) == Return(S, b, NULL, FALSE)

ReturnObj(S, v) == Return(S, v # NULL, v, FALSE)

\* The running function, continuing at pc with locals fr, calls callee.
Call(S, fr, pc, callee) ==
    [S EXCEPT !.stack = Append([@ EXCEPT ![Len(@)] = [fr EXCEPT !.pc = pc]], callee)]

\* `return callee(...)`: the callee's result is the running function's.
TailCall(S, callee) ==
    [S EXCEPT !.stack = [@ EXCEPT ![Len(@)] = callee]]

SetError(S, code, message) ==
    [S EXCEPT !.interpreter.error.code = code,
              !.interpreter.error.message = message]

-----------------------------------------------------------------------------
(* The references of the evaluator.  A PyObject of the evaluator is a value *)
(* here and carries no ref_count; `references` is the ledger of what the    *)
(* counts would hold beyond the holders: `owed` has the value of an object  *)
(* once for every reference that its ref_count counts and that no variable  *)
(* binding, list slot, dictionary slot or stored return value holds;        *)
(* `excess` counts the py_decref calls on an object that had no such        *)
(* reference.  define_variable, set_variable and pop_scope call py_incref   *)
(* and py_decref for the binding they create or remove, and leave the       *)
(* ledger as it is.                                                         *)

RECURSIVE Without(_, _)

\* seq without the first of its elements equal to obj.
Without(seq, obj) ==
    IF seq = <<>> THEN <<>>
    ELSE IF Head(seq) = obj THEN Tail(seq)
    ELSE <<Head(seq)>> \o Without(Tail(seq), obj)

\* The evaluator obtains a reference to obj: obj is new (py_number_new,
\* py_string_new, py_list_new start the count at 1) or py_incref(obj) ran.
TakeReference(S, obj) ==
    IF obj = NULL THEN S
    ELSE [S EXCEPT !.references.owed = Append(@, obj)]

\* py_decref(obj) on a reference of the evaluator.
DropReference(S, obj) ==
    IF obj = NULL THEN S
    ELSE IF \E k \in 1..Len(S.references.owed) : S.references.owed[k] = obj
    THEN [S EXCEPT !.references.owed = Without(@, obj)]
    ELSE [S EXCEPT !.references.excess = @ + 1]

RECURSIVE DropReferences(_, _)

\* py_decref on each of objs in turn.
DropReferences(S, objs) ==
    IF objs = <<>> THEN S
    ELSE DropReferences(DropReference(S, Head(objs)), Tail(objs))

\* `holder = obj` with no py_incref: the evaluator's reference to obj is the
\* holder's from now on.
StoreReference(S, obj) == DropReference(S, obj)

\* `holder = NULL` with no py_decref of the object the holder had: its count
\* keeps the reference and nothing holds it.
ForgetReference(S, obj) == TakeReference(S, obj)

-----------------------------------------------------------------------------
(* Scopes, variables, functions *)

\* A faulty push_scope that parents the new frame on the global frame; C17
\* does not hold of it.
push_scope_OnGlobal(S) ==
    [S EXCEPT !.current_scope =
        IF @ = <<>> THEN <<<<>>>> ELSE <<<<>>, @[Len(@)]>>]

push_scope(S) == [S EXCEPT !.current_scope = <<<<>>>> \o @]

\* A faulty pop_scope that hands the bindings of the frame it removes to the
\* parent frame; C12 does not hold of it.
pop_scope_KeepsBindings(S) ==
    IF S.current_scope = <<>> THEN S
    ELSE IF Len(S.current_scope) = 1 THEN [S EXCEPT !.current_scope = Tail(@)]
    ELSE [S EXCEPT !.current_scope = <<@[1] \o @[2]>> \o SubSeq(@, 3, Len(@))]

pop_scope(S) ==
    IF S.current_scope = <<>> THEN S
    ELSE [S EXCEPT !.current_scope = Tail(@)]

\* Index of the first entry named name in the scope's list, 0 for NULL.
find_variable_in_scope(name, scope) ==
    IF \E k \in 1..Len(scope) : scope[k].name = name
    THEN CHOOSE k \in 1..Len(scope) :
            /\ scope[k].name = name
            /\ \A j \in 1..(k - 1) : scope[j].name # name
    ELSE 0

\* A faulty find_variable that walks the chain from the global scope inwards
\* and so finds the outermost binding; C10 does not hold of it.
find_variable_Outermost(S, name) ==
    LET chain == S.current_scope
        holds(k) == find_variable_in_scope(name, chain[k]) # 0
    IN  IF \E k \in 1..Len(chain) : holds(k)
        THEN LET k == CHOOSE k \in 1..Len(chain) :
                        holds(k) /\ \A j \in (k + 1)..Len(chain) : ~holds(j)
             IN  <<k, find_variable_in_scope(name, chain[k])>>
        ELSE <<0, 0>>

\* <<scope index, entry index>> of the innermost binding, <<0, 0>> for NULL.
find_variable(S, name) ==
    LET chain == S.current_scope
        holds(k) == find_variable_in_scope(name, chain[k]) # 0
    IN  IF \E k \in 1..Len(chain) : holds(k)
        THEN LET k == CHOOSE k \in 1..Len(chain) :
                        holds(k) /\ \A j \in 1..(k - 1) : ~holds(j)
             IN  <<k, find_variable_in_scope(name, chain[k])>>
        ELSE <<0, 0>>

\* A faulty find_function that starts at the second entry of the table and so
\* misses the function declared last; C16 does not hold of it.
find_function_SkipsNewest(S, name) ==
    LET t == S.function_table
    IN  IF \E k \in 2..Len(t) : t[k].name = name
        THEN CHOOSE k \in 2..Len(t) :
                /\ t[k].name = name
                /\ \A j \in 2..(k - 1) : t[j].name # name
        ELSE 0

\* Index of the entry named name in the function table, 0 for NULL.
find_function(S, name) ==
    LET t == S.function_table
    IN  IF \E k \in 1..Len(t) : t[k].name = name
        THEN CHOOSE k \in 1..Len(t) :
                /\ t[k].name = name
                /\ \A j \in 1..(k - 1) : t[j].name # name
        ELSE 0

\* A faulty define_variable that looks for name in every frame of the chain;
\* C11 does not hold of it.
define_variable_AnyFrame(S, name, value, is_constant) ==
    IF find_variable(S, name) # <<0, 0>>
    THEN [ok |-> FALSE,
          st |-> SetError(S, KUNYU_ERROR_RUNTIME,
                          "variable already defined in this scope: " \o name)]
    ELSE [ok |-> TRUE,
          st |-> [S EXCEPT !.current_scope[1] =
                     <<[name |-> name, is_constant |-> is_constant,
                        value |-> value]>> \o @]]

define_variable(S, name, value, is_constant) ==
    IF find_variable_in_scope(name, S.current_scope[1]) # 0
    THEN [ok |-> FALSE,
          st |-> SetError(S, KUNYU_ERROR_RUNTIME,
                          "variable already defined in this scope: " \o name)]
    ELSE [ok |-> TRUE,
          st |-> [S EXCEPT !.current_scope[1] =
                     <<[name |-> name, is_constant |-> is_constant,
                        value |-> value]>> \o @]]

\* A faulty define_function without the lookup of the name; C15 does not hold
\* of it.
define_function_AllowsDuplicate(S, name, params, param_count, body) ==
    [ok |-> TRUE,
     st |-> [S EXCEPT !.function_table =
                <<[name |-> name, params |-> params,
                   param_count |-> param_count, body |-> body]>> \o @]]

define_function(S, name, params, param_count, body) ==
    IF find_function(S, name) # 0
    THEN [ok |-> FALSE,
          st |-> SetError(S, KUNYU_ERROR_RUNTIME,
                          "function already defined: " \o name)]
    ELSE [ok |-> TRUE,
          st |-> [S EXCEPT !.function_table =
                     <<[name |-> name, params |-> params,
                        param_count |-> param_count, body |-> body]>> \o @]]

get_variable(S, name) ==
    LET e == find_variable(S, name)
    IN  IF e = <<0, 0>>
        THEN [v |-> NULL,
              st |-> SetError(S, KUNYU_ERROR_RUNTIME, "undefined variable: " \o name)]
        ELSE [v |-> S.current_scope[e[1]][e[2]].value, st |-> S]

\* A faulty set_variable without the is_constant test; C9 does not hold of it.
set_variable_IgnoresConstant(S, name, value) ==
    LET e == find_variable(S, name)
    IN  IF e = <<0, 0>>
        THEN [ok |-> FALSE,
              st |-> SetError(S, KUNYU_ERROR_RUNTIME, "undefined variable: " \o name)]
        ELSE [ok |-> TRUE,
              st |-> [S EXCEPT !.current_scope[e[1]][e[2]].value = value]]

set_variable(S, name, value) ==
    LET e == find_variable(S, name)
    IN  IF e = <<0, 0>>
        THEN [ok |-> FALSE,
              st |-> SetError(S, KUNYU_ERROR_RUNTIME, "undefined variable: " \o name)]
        ELSE IF S.current_scope[e[1]][e[2]].is_constant
        THEN [ok |-> FALSE,
              st |-> SetError(S, KUNYU_ERROR_RUNTIME,
                              "cannot modify constant: " \o name)]
        ELSE [ok |-> TRUE,
              st |-> [S EXCEPT !.current_scope[e[1]][e[2]].value = value]]

-----------------------------------------------------------------------------
(* The builtin registry *)

register_builtin(funcs, name, arg_count) ==
    <<[name |-> name, arg_count |-> arg_count]>> \o funcs

\* builtins_init: nine registrations in front of what the list already holds.
builtins_init(funcs) ==
    LET f1 == register_builtin(funcs, "create_list", 0)
        f2 == register_builtin(f1, "list_append", 2)
        f3 == register_builtin(f2, "list_length", 1)
        f4 == register_builtin(f3, "list_get", 2)
        f5 == register_builtin(f4, "list_set", 3)
        f6 == register_builtin(f5, "create_dict", 0)
        f7 == register_builtin(f6, "dict_set", 3)
        f8 == register_builtin(f7, "dict_get", 2)
    IN  register_builtin(f8, "dict_size", 1)

find_builtin(funcs, name) ==
    IF \E k \in 1..Len(funcs) : funcs[k].name = name
    THEN CHOOSE k \in 1..Len(funcs) :
            /\ funcs[k].name = name
            /\ \A j \in 1..(k - 1) : funcs[j].name # name
    ELSE 0

\* A faulty builtins_is_builtin that knows no name, so that every call goes
\* to the function table; C18 does not hold of it.
builtins_is_builtin_Never(S, name) == FALSE

builtins_is_builtin(S, name) == find_builtin(S.builtin_funcs, name) # 0

builtin_create_list(args) == py_list_new

\* A list of the evaluator model is never appended to: its length is 0.
builtin_list_length(args) ==
    IF Len(args) # 1 \/ args[1] = NULL THEN NULL
    ELSE IF args[1].type # "TYPE_LIST" THEN NULL
    ELSE py_number_new(0, 1)

\* builtins_call.  Of the nine builtin bodies the evaluator model has
\* create_list and list_length, the two its programs call.
builtins_call(S, name, args) ==
    LET k == find_builtin(S.builtin_funcs, name)
    IN  IF k = 0 THEN NULL
        ELSE IF S.builtin_funcs[k].arg_count >= 0
                /\ S.builtin_funcs[k].arg_count # Len(args) THEN NULL
        ELSE IF name = "create_list" THEN builtin_create_list(args)
        ELSE IF name = "list_length" THEN builtin_list_length(args)
        ELSE NULL

-----------------------------------------------------------------------------
(* Statements *)

ExecuteStatementFrame(node, S) == Frame("execute_statement", node, S)

EvalExpressionFrame(node, S) == Frame("eval_expression", node, S)

\* A faulty exec_print_stmt that records an error of its own when the value
\* failed; C32 does not hold of it.
exec_print_stmt_ReportsFailure(S) ==
    LET fr == TopOf(S)
    IN  IF fr.node.type # "NODE_PRINT"
        THEN ReturnBool(SetError(S, KUNYU_ERROR_RUNTIME, "expected a print node"), FALSE)
        ELSE IF fr.pc = "start"
        THEN Call(S, fr, "after_value", EvalExpressionFrame(fr.node.kids[1], S))
        ELSE IF S.ret.v = NULL
        THEN ReturnBool(SetError(S, KUNYU_ERROR_RUNTIME, "print failed"), FALSE)
        ELSE ReturnBool(DropReference([S EXCEPT !.output =
                                          Append(@, object_to_string(S.ret.v))],
                                      S.ret.v), TRUE)

exec_print_stmt(S) ==
    LET fr == TopOf(S)
    IN  IF fr.node.type # "NODE_PRINT"
        THEN ReturnBool(SetError(S, KUNYU_ERROR_RUNTIME, "expected a print node"), FALSE)
        ELSE IF fr.pc = "start"
        THEN Call(S, fr, "after_value", EvalExpressionFrame(fr.node.kids[1], S))
        ELSE IF S.ret.v = NULL THEN ReturnBool(S, FALSE)
        ELSE ReturnBool(DropReference([S EXCEPT !.output =
                                          Append(@, object_to_string(S.ret.v))],
                                      S.ret.v), TRUE)

exec_var_decl(S) ==
    LET fr == TopOf(S)
    IN  IF fr.node.type # "NODE_VARDECL"
        THEN ReturnBool(SetError(S, KUNYU_ERROR_RUNTIME, "expected a declaration node"),
                        FALSE)
        ELSE IF fr.pc = "start"
        THEN Call(S, fr, "after_value", EvalExpressionFrame(fr.node.kids[1], S))
        ELSE IF S.ret.v = NULL THEN ReturnBool(S, FALSE)
        ELSE LET d == define_variable(S, fr.node.name, S.ret.v, fr.node.is_constant)
             IN  ReturnBool(DropReference(d.st, S.ret.v), d.ok)

exec_if_stmt(S) ==
    LET fr == TopOf(S)
    IN  IF fr.node.type # "NODE_IF"
        THEN ReturnBool(SetError(S, KUNYU_ERROR_RUNTIME, "expected an if node"), FALSE)
        ELSE IF fr.pc = "start"
        THEN Call(S, fr, "after_condition", EvalExpressionFrame(fr.node.kids[1], S))
        ELSE IF S.ret.v = NULL THEN ReturnBool(S, FALSE)
        ELSE LET S1 == DropReference(S, S.ret.v)
             IN  IF is_truthy(S.ret.v)
                 THEN TailCall(S1, ExecuteStatementFrame(fr.node.kids[2], S1))
                 ELSE IF fr.node.kids[3] # NoNode
                 THEN TailCall(S1, ExecuteStatementFrame(fr.node.kids[3], S1))
                 ELSE ReturnBool(S1, TRUE)

\* A faulty exec_loop_stmt without the has_return test after the body; C4
\* does not hold of it.
exec_loop_stmt_IgnoresReturn(S) ==
    LET fr == TopOf(S)
        condition == EvalExpressionFrame(fr.node.kids[1], S)
    IN  IF fr.node.type # "NODE_LOOP"
        THEN ReturnBool(SetError(S, KUNYU_ERROR_RUNTIME, "expected a loop node"), FALSE)
        ELSE IF fr.pc = "start"
        THEN Call(S, fr, "after_condition", condition)
        ELSE IF fr.pc = "after_condition"
        THEN IF S.ret.v = NULL THEN ReturnBool(S, FALSE)
             ELSE IF ~is_truthy(S.ret.v)
             THEN ReturnBool(DropReference(S, S.ret.v), TRUE)
             ELSE Call(DropReference(S, S.ret.v), fr, "after_body",
                       ExecuteStatementFrame(fr.node.kids[2], S))
        ELSE IF ~S.ret.b THEN ReturnBool(S, FALSE)
        ELSE Call(S, fr, "after_condition", condition)

\* A faulty exec_loop_stmt that runs the body once before it first evaluates
\* the condition; C13 does not hold of it.
exec_loop_stmt_BodyFirst(S) ==
    LET fr == TopOf(S)
        condition == EvalExpressionFrame(fr.node.kids[1], S)
    IN  IF fr.node.type # "NODE_LOOP"
        THEN ReturnBool(SetError(S, KUNYU_ERROR_RUNTIME, "expected a loop node"), FALSE)
        ELSE IF fr.pc = "start"
        THEN Call(S, fr, "after_body", ExecuteStatementFrame(fr.node.kids[2], S))
        ELSE IF fr.pc = "after_condition"
        THEN IF S.ret.v = NULL THEN ReturnBool(S, FALSE)
             ELSE IF ~is_truthy(S.ret.v)
             THEN ReturnBool(DropReference(S, S.ret.v), TRUE)
             ELSE Call(DropReference(S, S.ret.v), fr, "after_body",
                       ExecuteStatementFrame(fr.node.kids[2], S))
        ELSE IF ~S.ret.b THEN ReturnBool(S, FALSE)
        ELSE IF S.interpreter.has_return THEN ReturnBool(S, TRUE)
        ELSE Call(S, fr, "after_condition", condition)

exec_loop_stmt(S) ==
    LET fr == TopOf(S)
        condition == EvalExpressionFrame(fr.node.kids[1], S)
    IN  IF fr.node.type # "NODE_LOOP"
        THEN ReturnBool(SetError(S, KUNYU_ERROR_RUNTIME, "expected a loop node"), FALSE)
        ELSE IF fr.pc = "start"
        THEN Call(S, fr, "after_condition", condition)
        ELSE IF fr.pc = "after_condition"
        THEN IF S.ret.v = NULL THEN ReturnBool(S, FALSE)
             ELSE IF ~is_truthy(S.ret.v)
             THEN ReturnBool(DropReference(S, S.ret.v), TRUE)
             ELSE Call(DropReference(S, S.ret.v), fr, "after_body",
                       ExecuteStatementFrame(fr.node.kids[2], S))
        ELSE IF ~S.ret.b THEN ReturnBool(S, FALSE)
        ELSE IF S.interpreter.has_return THEN ReturnBool(S, TRUE)
        ELSE Call(S, fr, "after_condition", condition)

exec_function_decl(S) ==
    LET fr == TopOf(S)
    IN  IF fr.node.type # "NODE_FUNCDECL"
        THEN ReturnBool(SetError(S, KUNYU_ERROR_RUNTIME, "expected a function node"),
                        FALSE)
        ELSE LET d == define_function(S, fr.node.name, fr.node.params,
                                      Len(fr.node.params), fr.node.kids[1])
             IN  ReturnBool(d.st, d.ok)

\* A faulty BlockLoop whose error exit returns before pop_scope; C3 does not
\* hold of it.
BlockLoop_LeavesScopeOnError(S, fr) ==
    IF fr.i > 0 /\ ~S.ret.b THEN ReturnBool(S, FALSE)
    ELSE IF fr.i > 0 /\ S.interpreter.has_return THEN ReturnBool(pop_scope(S), TRUE)
    ELSE IF fr.i < Len(fr.node.kids)
    THEN Call(S, [fr EXCEPT !.i = fr.i + 1], "after_statement",
              ExecuteStatementFrame(fr.node.kids[fr.i + 1], S))
    ELSE ReturnBool(pop_scope(S), TRUE)

\* The statement loop of execute_block from the check that follows statement
\* i (i = 0: from the top of the loop).
BlockLoop(S, fr) ==
    IF fr.i > 0 /\ ~S.ret.b THEN ReturnBool(pop_scope(S), FALSE)
    ELSE IF fr.i > 0 /\ S.interpreter.has_return THEN ReturnBool(pop_scope(S), TRUE)
    ELSE IF fr.i < Len(fr.node.kids)
    THEN Call(S, [fr EXCEPT !.i = fr.i + 1], "after_statement",
              ExecuteStatementFrame(fr.node.kids[fr.i + 1], S))
    ELSE ReturnBool(pop_scope(S), TRUE)

\* A faulty execute_block whose new frame starts with the bindings of the
\* frame around it; C33 does not hold of it.
execute_block_CopiesFrame(S) ==
    LET fr == TopOf(S)
    IN  IF fr.node.type # "NODE_BLOCK"
        THEN ReturnBool(SetError(S, KUNYU_ERROR_RUNTIME, "expected a block node"), FALSE)
        ELSE IF fr.pc = "start"
        THEN BlockLoop([S EXCEPT !.current_scope = <<Head(@)>> \o @], fr)
        ELSE BlockLoop(S, fr)

execute_block(S) ==
    LET fr == TopOf(S)
    IN  IF fr.node.type # "NODE_BLOCK"
        THEN ReturnBool(SetError(S, KUNYU_ERROR_RUNTIME, "expected a block node"), FALSE)
        ELSE IF fr.pc = "start" THEN BlockLoop(push_scope(S), fr)
        ELSE BlockLoop(S, fr)

exec_return_stmt(S) ==
    LET fr == TopOf(S)
    IN  IF fr.node.type # "NODE_RETURN"
        THEN ReturnBool(SetError(S, KUNYU_ERROR_RUNTIME, "expected a return node"), FALSE)
        ELSE IF fr.pc = "start"
        THEN LET S1 == [S EXCEPT !.interpreter.return_value = NULL]
             IN  IF fr.node.kids[1] # NoNode
                 THEN Call(S1, fr, "after_value", EvalExpressionFrame(fr.node.kids[1], S1))
                 ELSE ReturnBool([S1 EXCEPT !.interpreter.has_return = TRUE], TRUE)
        ELSE IF S.ret.v = NULL THEN ReturnBool(S, FALSE)
        ELSE ReturnBool(StoreReference([S EXCEPT !.interpreter.return_value = S.ret.v,
                                                 !.interpreter.has_return = TRUE],
                                       S.ret.v), TRUE)

exec_expression_stmt(S) ==
    LET fr == TopOf(S)
    IN  IF fr.node.type # "NODE_PROGRAM" \/ fr.node.stmt_type # "STMT_EXPRESSION"
        THEN ReturnBool(SetError(S, KUNYU_ERROR_RUNTIME,
                                 "expected an expression statement node"), FALSE)
        ELSE IF fr.pc = "start"
        THEN Call(S, fr, "after_value", EvalExpressionFrame(fr.node.kids[1], S))
        ELSE IF S.ret.v = NULL THEN ReturnBool(S, FALSE)
        ELSE ReturnBool(DropReference(S, S.ret.v), TRUE)

\* execute_statement: `return exec_xxx(node)` by node type.
execute_statement(S) ==
    LET node == TopOf(S).node
        handler(fn) == TailCall(S, Frame(fn, node, S))
    IN  IF node = NoNode THEN ReturnBool(S, FALSE)
        ELSE IF node.type = "NODE_PRINT" THEN handler("exec_print_stmt")
        ELSE IF node.type = "NODE_VARDECL" THEN handler("exec_var_decl")
        ELSE IF node.type = "NODE_IF" THEN handler("exec_if_stmt")
        ELSE IF node.type = "NODE_LOOP" THEN handler("exec_loop_stmt")
        ELSE IF node.type = "NODE_FUNCDECL" THEN handler("exec_function_decl")
        ELSE IF node.type = "NODE_BLOCK" THEN handler("execute_block")
        ELSE IF node.type = "NODE_RETURN" THEN handler("exec_return_stmt")
        ELSE IF node.type = "NODE_PROGRAM" /\ node.stmt_type = "STMT_EXPRESSION"
        THEN handler("exec_expression_stmt")
        ELSE ReturnBool(SetError(S, KUNYU_ERROR_RUNTIME, "unsupported statement type"),
                        FALSE)

\* A faulty ProgramLoop that goes on to the next statement after one that
\* failed; C25 does not hold of it.
ProgramLoop_ContinuesOnError(S, fr) ==
    IF fr.i > 0 /\ S.interpreter.has_return THEN ReturnBool(S, TRUE)
    ELSE IF fr.i < Len(fr.node.kids)
    THEN Call(S, [fr EXCEPT !.i = fr.i + 1], "after_statement",
              ExecuteStatementFrame(fr.node.kids[fr.i + 1], S))
    ELSE ReturnBool(S, TRUE)

\* A faulty ProgramLoop without the has_return test after a statement; C39
\* does not hold of it.
ProgramLoop_RunsOn(S, fr) ==
    IF fr.i > 0 /\ ~S.ret.b THEN ReturnBool(S, FALSE)
    ELSE IF fr.i < Len(fr.node.kids)
    THEN Call(S, [fr EXCEPT !.i = fr.i + 1], "after_statement",
              ExecuteStatementFrame(fr.node.kids[fr.i + 1], S))
    ELSE ReturnBool(S, TRUE)

\* The statement loop of execute_program, as BlockLoop.
ProgramLoop(S, fr) ==
    IF fr.i > 0 /\ ~S.ret.b THEN ReturnBool(S, FALSE)
    ELSE IF fr.i > 0 /\ S.interpreter.has_return THEN ReturnBool(S, TRUE)
    ELSE IF fr.i < Len(fr.node.kids)
    THEN Call(S, [fr EXCEPT !.i = fr.i + 1], "after_statement",
              ExecuteStatementFrame(fr.node.kids[fr.i + 1], S))
    ELSE ReturnBool(S, TRUE)

execute_program(S) ==
    LET fr == TopOf(S)
    IN  IF fr.node = NoNode \/ fr.node.type # "NODE_PROGRAM"
        THEN ReturnBool(SetError(S, KUNYU_ERROR_RUNTIME, "expected a program node"),
                        FALSE)
        ELSE ProgramLoop(S, fr)

-----------------------------------------------------------------------------
(* Expressions *)

Bool01(b) == IF b THEN py_number_new(1, 1) ELSE py_number_new(0, 1)

Less(a, b) == a.num * b.den < b.num * a.den

\* The operator switch of eval_binary_expr on two numbers: the result
\* object, or NULL with the error the case records.  `trap` marks the integer
\* division by zero of (int)a % (int)b when b is not 0 but truncates to 0,
\* which C leaves undefined.
NumericOp(op, a, b) ==
    LET val(v) == [v |-> v, code |-> KUNYU_OK, message |-> "", trap |-> FALSE]
        err(m) == [v |-> NULL, code |-> KUNYU_ERROR_RUNTIME, message |-> m,
                   trap |-> FALSE]
    IN  CASE op = "OP_ADD" -> val(py_number_new(a.num * b.den + b.num * a.den,
                                                a.den * b.den))
          [] op = "OP_SUB" -> val(py_number_new(a.num * b.den - b.num * a.den,
                                                a.den * b.den))
          [] op = "OP_MUL" -> val(py_number_new(a.num * b.num, a.den * b.den))
          [] op = "OP_DIV" ->
                IF b.num = 0 THEN err("division by zero")
                ELSE val(py_number_new(a.num * b.den, a.den * b.num))
          [] op = "OP_MOD" ->
                IF b.num = 0 THEN err("modulo by zero")
                ELSE IF IntCast(b) = 0
                THEN [v |-> NULL, code |-> KUNYU_OK, message |-> "", trap |-> TRUE]
                ELSE val(py_number_new(CRem(IntCast(a), IntCast(b)), 1))
          [] op = "OP_EQ" -> val(Bool01(a = b))
          [] op = "OP_NE" -> val(Bool01(a # b))
          [] op = "OP_LT" -> val(Bool01(Less(a, b)))
          [] op = "OP_LE" -> val(Bool01(~Less(b, a)))
          [] op = "OP_GT" -> val(Bool01(Less(b, a)))
          [] op = "OP_GE" -> val(Bool01(~Less(a, b)))
          [] OTHER -> err("unsupported operator")

\* eval_binary_expr once both operands are evaluated.
BinaryResult(op, left, right) ==
    IF op = "OP_ADD" /\ (left.type = "TYPE_STRING" \/ right.type = "TYPE_STRING")
    THEN [v |-> create_string_object(object_to_string(left) \o object_to_string(right)),
          code |-> KUNYU_OK, message |-> "", trap |-> FALSE]
    ELSE IF left.type = "TYPE_NUMBER" /\ right.type = "TYPE_NUMBER"
    THEN NumericOp(op, left, right)
    ELSE [v |-> NULL, code |-> KUNYU_ERROR_RUNTIME, message |-> "type mismatch",
          trap |-> FALSE]

\* What (int)a % (int)b does when (int)b is 0, which C leaves undefined: the
\* processor's division traps and the process is killed (x86), or the division
\* yields 0 and the remainder computed from it is the dividend (ARM, RISC-V).
RemainderByZero == {"SIGFPE", "dividend"}

\* eval_binary_expr; u is the outcome of a remainder by zero, should one occur.
eval_binary_expr(S, u) ==
    LET fr == TopOf(S)
    IN  IF fr.pc = "start"
        THEN Call(S, fr, "after_left", EvalExpressionFrame(fr.node.kids[1], S))
        ELSE IF fr.pc = "after_left"
        THEN IF S.ret.v = NULL THEN ReturnObj(S, NULL)
             ELSE Call(S, [fr EXCEPT !.left = S.ret.v], "after_right",
                       EvalExpressionFrame(fr.node.kids[2], S))
        ELSE IF S.ret.v = NULL THEN ReturnObj(DropReference(S, fr.left), NULL)
        ELSE LET r == BinaryResult(fr.node.op, fr.left, S.ret.v)
                 operands == <<fr.left, S.ret.v>>
             IN  IF r.trap
                 THEN IF u = "SIGFPE" THEN [S EXCEPT !.phase = "crashed"]
                      ELSE LET v == py_number_new(IntCast(fr.left), 1)
                           IN  ReturnObj(DropReferences(TakeReference(S, v), operands),
                                         v)
                 ELSE IF r.code # KUNYU_OK
                 THEN ReturnObj(DropReferences(SetError(S, r.code, r.message),
                                               operands), NULL)
                 ELSE ReturnObj(DropReferences(TakeReference(S, r.v), operands), r.v)

\* The builtin branch of eval_call_expr once the arguments are evaluated.
CallBuiltin(S, name, args) ==
    LET r == builtins_call(S, name, args)
        S1 == DropReferences(TakeReference(S, r), args)
    IN  IF r = NULL
        THEN ReturnObj(SetError(S1, KUNYU_ERROR_RUNTIME,
                                "builtin call failed: " \o name), NULL)
        ELSE ReturnObj(S1, r)

\* The user-function branch of eval_call_expr once the parameters are bound:
\* reset the return state and execute the body.
CallBody(S, fr) ==
    LET S1 == [S EXCEPT !.interpreter.has_return = FALSE,
                        !.interpreter.return_value = NULL]
    IN  Call(S1, fr, "after_body", ExecuteStatementFrame(fr.func.body, S1))

\* A faulty CallFinish that leaves has_return and return_value as the body
\* left them; C5 does not hold of it.
CallFinish_KeepsReturn(S) ==
    LET success == S.ret.b
        return_value ==
            IF success /\ S.interpreter.has_return
               /\ S.interpreter.return_value # NULL
            THEN S.interpreter.return_value ELSE NULL
        void == success /\ ~S.interpreter.has_return
        S1 == pop_scope(TakeReference(S, return_value))
    IN  IF ~success THEN ReturnObj(S1, NULL)
        ELSE Return(S1, return_value # NULL, return_value, void)

\* The user-function branch of eval_call_expr once the body has run.
CallFinish(S) ==
    LET success == S.ret.b
        return_value ==
            IF success /\ S.interpreter.has_return
               /\ S.interpreter.return_value # NULL
            THEN S.interpreter.return_value ELSE NULL
        void == success /\ ~S.interpreter.has_return
        S1 == pop_scope(TakeReference(S, return_value))
        S2 == [S1 EXCEPT !.interpreter.has_return = FALSE,
                         !.interpreter.return_value = NULL]
    IN  IF ~success THEN ReturnObj(S2, NULL)
        ELSE Return(S2, return_value # NULL, return_value, void)

\* A faulty eval_call_expr that pushes the call's scope before it compares
\* the argument count with the parameter count; C14 does not hold of it.
eval_call_expr_ScopeBeforeArity(S) ==
    LET fr == TopOf(S)
        expr == fr.node
        arg_count == Len(expr.kids)
        arg(k) == EvalExpressionFrame(expr.kids[k], S)
    IN  IF fr.pc = "start"
        THEN IF builtins_is_builtin(S, expr.name)
             THEN IF arg_count > 0
                  THEN Call(S, [fr EXCEPT !.i = 1], "builtin_argument", arg(1))
                  ELSE CallBuiltin(S, expr.name, <<>>)
             ELSE LET k == find_function(S, expr.name)
                      func == S.function_table[k]
                      S1 == push_scope(S)
                      fr1 == [fr EXCEPT !.func = func, !.i = 1]
                  IN  IF k = 0
                      THEN ReturnObj(SetError(S, KUNYU_ERROR_RUNTIME,
                                              "undefined function: " \o expr.name), NULL)
                      ELSE IF arg_count # func.param_count
                      THEN ReturnObj(SetError(S1, KUNYU_ERROR_RUNTIME,
                                              "wrong argument count: " \o expr.name
                                              \o " needs " \o ToString(func.param_count)
                                              \o ", got " \o ToString(arg_count)), NULL)
                      ELSE IF arg_count > 0
                      THEN Call(S1, fr1, "bind_argument",
                                EvalExpressionFrame(expr.kids[1], S1))
                      ELSE CallBody(S1, fr1)
        ELSE IF fr.pc = "builtin_argument"
        THEN IF S.ret.v = NULL THEN ReturnObj(DropReferences(S, fr.args), NULL)
             ELSE LET args == Append(fr.args, S.ret.v)
                  IN  IF fr.i < arg_count
                      THEN Call(S, [fr EXCEPT !.i = fr.i + 1, !.args = args],
                                "builtin_argument", arg(fr.i + 1))
                      ELSE CallBuiltin(S, expr.name, args)
        ELSE IF fr.pc = "bind_argument"
        THEN IF S.ret.v = NULL THEN ReturnObj(pop_scope(S), NULL)
             ELSE LET d == define_variable(S, fr.func.params[fr.i], S.ret.v, FALSE)
                      S1 == DropReference(d.st, S.ret.v)
                  IN  IF ~d.ok THEN ReturnObj(pop_scope(S1), NULL)
                      ELSE IF fr.i < arg_count
                      THEN Call(S1, [fr EXCEPT !.i = fr.i + 1], "bind_argument",
                                EvalExpressionFrame(expr.kids[fr.i + 1], S1))
                      ELSE CallBody(S1, fr)
        ELSE CallFinish(S)

eval_call_expr(S) ==
    LET fr == TopOf(S)
        expr == fr.node
        arg_count == Len(expr.kids)
        arg(k) == EvalExpressionFrame(expr.kids[k], S)
    IN  IF fr.pc = "start"
        THEN IF builtins_is_builtin(S, expr.name)
             THEN IF arg_count > 0
                  THEN Call(S, [fr EXCEPT !.i = 1], "builtin_argument", arg(1))
                  ELSE CallBuiltin(S, expr.name, <<>>)
             ELSE LET k == find_function(S, expr.name)
                      func == S.function_table[k]
                  IN  IF k = 0
                      THEN ReturnObj(SetError(S, KUNYU_ERROR_RUNTIME,
                                              "undefined function: " \o expr.name), NULL)
                      ELSE IF arg_count # func.param_count
                      THEN ReturnObj(SetError(S, KUNYU_ERROR_RUNTIME,
                                              "wrong argument count: " \o expr.name
                                              \o " needs " \o ToString(func.param_count)
                                              \o ", got " \o ToString(arg_count)), NULL)
                      ELSE LET S1 == push_scope(S)
                               fr1 == [fr EXCEPT !.func = func, !.i = 1]
                           IN  IF arg_count > 0
                               THEN Call(S1, fr1, "bind_argument",
                                         EvalExpressionFrame(expr.kids[1], S1))
                               ELSE CallBody(S1, fr1)
        ELSE IF fr.pc = "builtin_argument"
        THEN IF S.ret.v = NULL THEN ReturnObj(DropReferences(S, fr.args), NULL)
             ELSE LET args == Append(fr.args, S.ret.v)
                  IN  IF fr.i < arg_count
                      THEN Call(S, [fr EXCEPT !.i = fr.i + 1, !.args = args],
                                "builtin_argument", arg(fr.i + 1))
                      ELSE CallBuiltin(S, expr.name, args)
        ELSE IF fr.pc = "bind_argument"
        THEN IF S.ret.v = NULL THEN ReturnObj(pop_scope(S), NULL)
             ELSE LET d == define_variable(S, fr.func.params[fr.i], S.ret.v, FALSE)
                      S1 == DropReference(d.st, S.ret.v)
                  IN  IF ~d.ok THEN ReturnObj(pop_scope(S1), NULL)
                      ELSE IF fr.i < arg_count
                      THEN Call(S1, [fr EXCEPT !.i = fr.i + 1], "bind_argument",
                                EvalExpressionFrame(expr.kids[fr.i + 1], S1))
                      ELSE CallBody(S1, fr)
        ELSE CallFinish(S)

eval_variable_expr(S, expr) ==
    LET g == get_variable(S, expr.name)
    IN  ReturnObj(TakeReference(g.st, g.v), g.v)

eval_literal_expr(S, expr) ==
    IF expr.token_type = "KUNYU_TOKEN_NUMBER"
    THEN ReturnObj(TakeReference(S, atof(expr.value)), atof(expr.value))
    ELSE IF expr.token_type = "KUNYU_TOKEN_STRING"
    THEN ReturnObj(TakeReference(S, create_string_object(expr.value)),
                   create_string_object(expr.value))
    ELSE ReturnObj(SetError(S, KUNYU_ERROR_RUNTIME, "unsupported literal type"), NULL)

eval_assign_expr(S) ==
    LET fr == TopOf(S)
    IN  IF fr.pc = "start"
        THEN Call(S, fr, "after_value", EvalExpressionFrame(fr.node.kids[1], S))
        ELSE IF S.ret.v = NULL THEN ReturnObj(S, NULL)
        ELSE LET w == set_variable(S, fr.node.name, S.ret.v)
             IN  IF ~w.ok THEN ReturnObj(DropReference(w.st, S.ret.v), NULL)
                 ELSE ReturnObj(w.st, S.ret.v)

\* eval_expression: `return eval_xxx(expr)` by node type.  A grouping is
\* `return eval_expression(expr->expr)`.
eval_expression(S) ==
    LET node == TopOf(S).node
    IN  IF node = NoNode THEN ReturnObj(S, NULL)
        ELSE IF node.type = "NODE_LITERAL" THEN eval_literal_expr(S, node)
        ELSE IF node.type = "NODE_IDENTIFIER" THEN eval_variable_expr(S, node)
        ELSE IF node.type = "NODE_BINARY"
        THEN TailCall(S, Frame("eval_binary_expr", node, S))
        ELSE IF node.type = "NODE_GROUPING"
        THEN TailCall(S, EvalExpressionFrame(node.kids[1], S))
        ELSE IF node.type = "NODE_CALL"
        THEN TailCall(S, Frame("eval_call_expr", node, S))
        ELSE IF node.type = "NODE_ASSIGN"
        THEN TailCall(S, Frame("eval_assign_expr", node, S))
        ELSE ReturnObj(SetError(S, KUNYU_ERROR_RUNTIME, "unsupported expression type"),
                       NULL)

-----------------------------------------------------------------------------
(* The programs the evaluator is run on: a prelude of declarations followed *)
(* by up to MaxStmts statements of a pool.  Every tree is one the parser    *)
(* builds (a block only as the body of if, loop and function; a return      *)
(* always with a value).                                                    *)

Num(text) == create_literal("KUNYU_TOKEN_NUMBER", text)

Str(text) == create_literal("KUNYU_TOKEN_STRING", text)

Var(name) == create_variable(name)

ExprStmt(expr) == create_expression_stmt(expr)

\* function f(a) { loop (a) { if (a == 1) { return a + x; } a = a - 1;; }
\*                 print "end"; }
DeclF ==
    create_function("f", <<"a">>, create_block(<<
        create_loop(Var("a"), create_block(<<
            create_if(create_binary(Var("a"), "OP_EQ", Num("1")),
                      create_block(<<create_return(
                          create_binary(Var("a"), "OP_ADD", Var("x")))>>),
                      NoNode),
            ExprStmt(create_assign("a", create_binary(Var("a"), "OP_SUB", Num("1"))))
        >>)),
        create_print(Str("end"))
    >>))

\* function g(n) { if (n) { return g(n - 1) + 1; } return 0; }
DeclG ==
    create_function("g", <<"n">>, create_block(<<
        create_if(Var("n"),
                  create_block(<<create_return(create_binary(
                      create_call("g", <<create_binary(Var("n"), "OP_SUB", Num("1"))>>),
                      "OP_ADD", Num("1")))>>),
                  NoNode),
        create_return(Num("0"))
    >>))

Preludes ==
    { <<>>,
      <<create_var_decl("x", Num("2"), FALSE)>>,
      <<create_var_decl("x", Num("2"), FALSE), DeclF>>,
      <<create_var_decl("x", Num("1"), TRUE), DeclF, DeclG>> }

\* if (x) { constant x = 3; x = 4;; } else { variable x = 5; x = 6;; }
ShadowIf ==
    create_if(Var("x"),
              create_block(<<create_var_decl("x", Num("3"), TRUE),
                             ExprStmt(create_assign("x", Num("4")))>>),
              create_block(<<create_var_decl("x", Num("5"), FALSE),
                             ExprStmt(create_assign("x", Num("6")))>>))

\* loop (x) { variable t = x; x = x - 1;; }
CountDown ==
    create_loop(Var("x"), create_block(<<
        create_var_decl("t", Var("x"), FALSE),
        ExprStmt(create_assign("x", create_binary(Var("x"), "OP_SUB", Num("1"))))
    >>))

\* loop (x) { if (x) { return x; } }
ReturnInLoop ==
    create_loop(Var("x"), create_block(<<
        create_if(Var("x"), create_block(<<create_return(Var("x"))>>), NoNode)>>))

Pool ==
    { create_print(create_call("f", <<Var("x")>>)),
      ReturnInLoop,
      ExprStmt(create_call("f", <<Num("0")>>)),
      create_var_decl("y", create_call("g", <<Num("2")>>), FALSE),
      ExprStmt(create_assign("x", Num("0"))),
      ShadowIf,
      CountDown,
      create_print(create_binary(create_binary(Var("x"), "OP_AND", Num("1")),
                                 "OP_OR", Num("0"))),
      create_print(create_binary(Num("1"), "OP_DIV", Num("0"))),
      create_return(Var("x")),
      create_print(create_call("f", <<Num("1"), Num("2")>>)),
      create_print(create_call("list_length", <<create_call("create_list", <<>>)>>)) }

\* Preludes for scoping and function lookup:
\*   variable x = 2;  function r() { return t; }
\*   function mk() { function h() { return 1; } return h(); }
\* and
\*   variable x = 1;  variable t = 5;  function r() { return t; }
\*   function early() { return late(); }
\*   function create_list() { print "user"; return 1; }
ScopePreludes ==
    LET ret1 == create_block(<<create_return(Num("1"))>>)
        r == create_function("r", <<>>, create_block(<<create_return(Var("t"))>>))
        mk == create_function("mk", <<>>, create_block(<<
                  create_function("h", <<>>, ret1),
                  create_return(create_call("h", <<>>))>>))
        early == create_function("early", <<>>, create_block(<<
                     create_return(create_call("late", <<>>))>>))
        user_list == create_function("create_list", <<>>, create_block(<<
                         create_print(Str("user")),
                         create_return(Num("1"))>>))
    IN  { <<create_var_decl("x", Num("2"), FALSE), r, mk>>,
          <<create_var_decl("x", Num("1"), FALSE), create_var_decl("t", Num("5"), FALSE),
            r, early, user_list>> }

\* if (x) { variable t = 3; print r(); }
LocalThenCall ==
    create_if(Var("x"),
              create_block(<<create_var_decl("t", Num("3"), FALSE),
                             create_print(create_call("r", <<>>))>>),
              NoNode)

\* if (x) { variable t = 3; function q() { return t; } }
DeclareInBlock ==
    create_if(Var("x"),
              create_block(<<create_var_decl("t", Num("3"), FALSE),
                             create_function("q", <<>>, create_block(<<
                                 create_return(Var("t"))>>))>>),
              NoNode)

\* loop (x) { function h() { return 1; } x = x - 1;; }
DeclareInLoop ==
    create_loop(Var("x"), create_block(<<
        create_function("h", <<>>, create_block(<<create_return(Num("1"))>>)),
        ExprStmt(create_assign("x", create_binary(Var("x"), "OP_SUB", Num("1"))))
    >>))

\* The statements that follow a scope prelude: the three above,
\* `function late() { return 1; }`, prints of calls of r, q, mk, h, early and
\* of list_length(create_list()), `print t;`, `t = 1;;`, `print r(x = 0);`,
\* `function p(x, y) { return y; }` and `print p(3, x);`.
ScopePool ==
    { LocalThenCall,
      DeclareInBlock,
      DeclareInLoop,
      create_function("late", <<>>, create_block(<<create_return(Num("1"))>>)),
      create_print(create_call("r", <<>>)),
      create_print(create_call("q", <<>>)),
      create_print(create_call("mk", <<>>)),
      create_print(create_call("h", <<>>)),
      create_print(create_call("early", <<>>)),
      create_print(create_call("list_length", <<create_call("create_list", <<>>)>>)),
      create_print(Var("t")),
      ExprStmt(create_assign("t", Num("1"))),
      create_print(create_call("r", <<create_assign("x", Num("0"))>>)),
      create_function("p", <<"x", "y">>, create_block(<<create_return(Var("y"))>>)),
      create_print(create_call("p", <<Num("3"), Var("x")>>)) }

RECURSIVE SeqsUpTo(_, _)
SeqsUpTo(S, n) ==
    IF n = 0 THEN {<<>>}
    ELSE LET shorter == SeqsUpTo(S, n - 1)
         IN  shorter \cup {Append(q, x) : q \in shorter, x \in S}

Programs ==
    {create_program(pre \o body) : pre \in Preludes, body \in SeqsUpTo(Pool, MaxStmts)}
    \cup {create_program(pre \o body) :
             pre \in ScopePreludes, body \in SeqsUpTo(ScopePool, MaxStmts)}

-----------------------------------------------------------------------------
(* The evaluator's steps *)

NoError == [code |-> KUNYU_OK, message |-> "", line |-> 0, column |-> 0]

NoRet == [b |-> FALSE, v |-> NULL, void |-> FALSE]

NoReferences == [owed |-> <<>>, excess |-> 0]

\* A faulty interpreter_init that leaves the function table as it is; C37
\* does not hold of it.
interpreter_init_KeepsFunctions(S) ==
    [ForgetReference(S, S.interpreter.return_value) EXCEPT
        !.interpreter = [error |-> NoError, has_return |-> FALSE,
                         return_value |-> NULL],
        !.current_scope = <<<<>>>>,
        !.builtin_funcs = builtins_init(@)]

\* interpreter_init: the error and return state reset, every scope dropped
\* and a global scope created, the function table emptied, builtins_init.
interpreter_init(S) ==
    [ForgetReference(S, S.interpreter.return_value) EXCEPT
        !.interpreter = [error |-> NoError, has_return |-> FALSE,
                         return_value |-> NULL],
        !.current_scope = <<<<>>>>,
        !.function_table = <<>>,
        !.builtin_funcs = builtins_init(@)]

\* interpreter_execute up to its call of execute_program.
InterpreterExecute ==
    /\ phase = "idle"
    /\ \E ast \in Programs :
          /\ root' = ast
          /\ LET S == interpreter_init(Cur)
             IN  Set([S EXCEPT !.phase = "running",
                               !.stack = <<Frame("execute_program", ast, S)>>])
    /\ UNCHANGED <<result, tokens, parsed, otherVars>>

\* interpreter_execute returns what execute_program returned.
InterpreterExecuteReturn ==
    /\ phase = "running"
    /\ stack = <<>>
    /\ phase' = "done"
    /\ result' = ret.b
    /\ UNCHANGED <<root, stack, ret, current_scope, function_table, builtin_funcs,
                   interpreter, output, references, tokens, parsed, otherVars>>

Running(fn) ==
    /\ phase = "running"
    /\ stack # <<>>
    /\ stack[Len(stack)].fn = fn
    /\ UNCHANGED <<root, result, tokens, parsed, otherVars>>

ExecuteProgram == Running("execute_program") /\ Set(execute_program(Cur))

ExecuteStatement == Running("execute_statement") /\ Set(execute_statement(Cur))

ExecPrintStmt == Running("exec_print_stmt") /\ Set(exec_print_stmt(Cur))

ExecVarDecl == Running("exec_var_decl") /\ Set(exec_var_decl(Cur))

ExecIfStmt == Running("exec_if_stmt") /\ Set(exec_if_stmt(Cur))

ExecLoopStmt == Running("exec_loop_stmt") /\ Set(exec_loop_stmt(Cur))

ExecFunctionDecl == Running("exec_function_decl") /\ Set(exec_function_decl(Cur))

ExecuteBlock == Running("execute_block") /\ Set(execute_block(Cur))

ExecReturnStmt == Running("exec_return_stmt") /\ Set(exec_return_stmt(Cur))

ExecExpressionStmt == Running("exec_expression_stmt") /\ Set(exec_expression_stmt(Cur))

EvalExpression == Running("eval_expression") /\ Set(eval_expression(Cur))

EvalBinaryExpr ==
    /\ Running("eval_binary_expr")
    /\ \E u \in RemainderByZero : Set(eval_binary_expr(Cur, u))

EvalCallExpr == Running("eval_call_expr") /\ Set(eval_call_expr(Cur))

EvalAssignExpr == Running("eval_assign_expr") /\ Set(eval_assign_expr(Cur))

NoParse ==
    [done |-> FALSE, ast |-> NoNode, error |-> NoError, current |-> 0, dropped |-> 0,
     created |-> 0, freed |-> <<>>, nodes |-> <<>>, turns |-> <<>>]

Init ==
    /\ phase = "idle"
    /\ root = NoNode
    /\ result = FALSE
    /\ stack = <<>>
    /\ ret = NoRet
    /\ current_scope = <<>>
    /\ function_table = <<>>
    /\ builtin_funcs = <<>>
    /\ interpreter = [error |-> NoError, has_return |-> FALSE, return_value |-> NULL]
    /\ output = <<>>
    /\ references = NoReferences
    /\ tokens = <<>>
    /\ parsed = NoParse
    /\ heap = Unused
    /\ lexer = Unused
    /\ repl = Unused

Next ==
    \/ InterpreterExecute
    \/ InterpreterExecuteReturn
    \/ ExecuteProgram
    \/ ExecuteStatement
    \/ ExecPrintStmt
    \/ ExecVarDecl
    \/ ExecIfStmt
    \/ ExecLoopStmt
    \/ ExecFunctionDecl
    \/ ExecuteBlock
    \/ ExecReturnStmt
    \/ ExecExpressionStmt
    \/ EvalExpression
    \/ EvalBinaryExpr
    \/ EvalCallExpr
    \/ EvalAssignExpr

Spec == Init /\ [][Next]_vars

-----------------------------------------------------------------------------
(* The parser (src/src/ast.c).  P is the ParserContext: tokens, token_count, *)
(* current (0-based, as in the source) and error.  A parse function takes P  *)
(* and gives [node, P]: the AstNode* it returns (NoNode for NULL) and the    *)
(* context it leaves.                                                        *)

Token(type, value, line, column) ==
    [type |-> type, value |-> value, line |-> line, column |-> column]

\* The Token* NULL.
NoToken == Token("NULL", "", 0, 0)

R(node, P) == [node |-> node, P |-> P]

current_token(P) ==
    IF P.current >= P.token_count THEN NoToken ELSE P.tokens[P.current + 1]

peek_token(P) ==
    IF P.current + 1 >= P.token_count THEN NoToken ELSE P.tokens[P.current + 2]

\* advance: the context after it (the token it returns is current_token(P)).
advance(P) ==
    IF current_token(P) # NoToken THEN [P EXCEPT !.current = @ + 1] ELSE P

check(P, type) ==
    IF current_token(P) = NoToken THEN FALSE ELSE current_token(P).type = type

check_keyword(P, keyword) ==
    IF current_token(P) = NoToken \/ current_token(P).type # "KUNYU_TOKEN_KEYWORD"
    THEN FALSE
    ELSE current_token(P).value = keyword

match(P, type) ==
    IF check(P, type) THEN [ok |-> TRUE, P |-> advance(P)]
    ELSE [ok |-> FALSE, P |-> P]

match_keyword(P, keyword) ==
    IF check_keyword(P, keyword) THEN [ok |-> TRUE, P |-> advance(P)]
    ELSE [ok |-> FALSE, P |-> P]

ParserError(P, code, message, token) ==
    [P EXCEPT !.error = [code |-> code, message |-> message,
                         line |-> token.line, column |-> token.column]]

\* A parser error that sets code and message and leaves line and column.
ParserErrorNoPos(P, code, message) ==
    [P EXCEPT !.error.code = code, !.error.message = message]

\* expect: [tok, P], tok the token consumed or NoToken with the error recorded.
expect(P, type, message) ==
    IF check(P, type) THEN [tok |-> current_token(P), P |-> advance(P)]
    ELSE [tok |-> NoToken,
          P |-> ParserError(P, KUNYU_ERROR_PARSER, message, current_token(P))]

expect_keyword(P, keyword, message) ==
    IF check_keyword(P, keyword) THEN [tok |-> current_token(P), P |-> advance(P)]
    ELSE [tok |-> NoToken,
          P |-> ParserError(P, KUNYU_ERROR_PARSER, message, current_token(P))]

\* `while (match(KUNYU_TOKEN_NEWLINE)) {}`
RECURSIVE SkipNewlines(_)
SkipNewlines(P) ==
    IF check(P, "KUNYU_TOKEN_NEWLINE") THEN SkipNewlines(advance(P)) ELSE P

\* expect(KUNYU_TOKEN_DELIMITER, message) followed by the test
\* `tok == NULL || strcmp(tok->value, text) != 0`: ok is the test failing.
ExpectDelimiter(P, text, message) ==
    LET e == expect(P, "KUNYU_TOKEN_DELIMITER", message)
    IN  [ok |-> e.tok # NoToken /\ e.tok.value = text, P |-> e.P]

\* `check(KUNYU_TOKEN_DELIMITER) && strcmp(current_token()->value, text) == 0`
AtDelimiter(P, text) ==
    check(P, "KUNYU_TOKEN_DELIMITER") /\ current_token(P).value = text

BinaryOpOf(text) ==
    CASE text = "+" -> "OP_ADD"
      [] text = "-" -> "OP_SUB"
      [] text = "*" -> "OP_MUL"
      [] text = "/" -> "OP_DIV"
      [] text = "%" -> "OP_MOD"
      [] text = "==" -> "OP_EQ"
      [] text = "!=" -> "OP_NE"
      [] text = "<" -> "OP_LT"
      [] text = "<=" -> "OP_LE"
      [] text = ">" -> "OP_GT"
      [] text = ">=" -> "OP_GE"
      [] text = "&&" -> "OP_AND"
      [] text = "||" -> "OP_OR"
      [] OTHER -> "NONE"

\* Binds the result of a call to a name: Bind(f(x), LAMBDA r : e) is e with r
\* the value f(x) returned, as `T* r = f(x);` followed by e.
Bind(value, Rest(_)) == Rest(value)

\* The malloc of a create_* function: the node at the address it got.  The
\* addresses are 1, 2, ... in the order of allocation; P.created is the number
\* of nodes allocated so far and P.freed the addresses handed to free, in the
\* order of the calls.  Neither is a field of the source's ParserContext.
Allocate(P, node) ==
    R([type |-> node.type, stmt_type |-> node.stmt_type, name |-> node.name,
       op |-> node.op, token_type |-> node.token_type, value |-> node.value,
       is_constant |-> node.is_constant, params |-> node.params,
       kids |-> node.kids, id |-> P.created + 1],
      [P EXCEPT !.created = @ + 1])

\* The addresses of the nodes of a tree, in the order ast_free frees them: the
\* destructor frees the children, then the node itself is freed.
RECURSIVE Addresses(_), AddressesOf(_)
Addresses(node) ==
    IF node.type = "NULL" THEN <<>> ELSE AddressesOf(node.kids) \o <<node.id>>

AddressesOf(kids) ==
    IF kids = <<>> THEN <<>> ELSE Addresses(Head(kids)) \o AddressesOf(Tail(kids))

\* A faulty ast_free that frees the node and not its children; C30 does not
\* hold of it.
ast_free_KeepsChildren(P, node) ==
    [P EXCEPT !.freed = @ \o (IF node.type = "NULL" THEN <<>> ELSE <<node.id>>)]

ast_free(P, node) == [P EXCEPT !.freed = @ \o Addresses(node)]

\* `for (i = 0; i < count; i++) ast_free(nodes[i]);`
RECURSIVE FreeEach(_, _)
FreeEach(P, nodes) ==
    IF nodes = <<>> THEN P ELSE FreeEach(ast_free(P, Head(nodes)), Tail(nodes))

\* The tree a pointer leads to, the addresses left out: what the evaluator
\* reads of it.
RECURSIVE Shape(_)
Shape(node) ==
    IF node.type = "NULL" THEN NoNode
    ELSE Node(node.type, node.stmt_type, node.name, node.op, node.token_type,
              node.value, node.is_constant, node.params,
              [k \in 1..Len(node.kids) |-> Shape(node.kids[k])])

program_add_statement(program, stmt) == [program EXCEPT !.kids = Append(@, stmt)]

RECURSIVE parse_expression(_), parse_binary_expr(_, _), parse_primary(_),
          parse_function_call(_, _), CallArgs(_, _), parse_statement(_),
          parse_block(_), BlockStatements(_, _), parse_if_stmt(_),
          ProgramStatements(_, _), FunctionParams(_, _)

\* The argument loop of parse_function_call: args parsed so far.
CallArgs(P, args) ==
    Bind(parse_expression(P), LAMBDA a :
        IF a.node = NoNode
        THEN [ok |-> FALSE, args |-> <<>>, P |-> FreeEach(a.P, args)]
        ELSE IF AtDelimiter(a.P, ")")
        THEN [ok |-> TRUE, args |-> Append(args, a.node), P |-> a.P]
        ELSE LET c == ExpectDelimiter(a.P, ",", "expected ',' between arguments")
             IN  IF ~c.ok
                 THEN [ok |-> FALSE, args |-> <<>>,
                       P |-> FreeEach(c.P, Append(args, a.node))]
                 ELSE CallArgs(c.P, Append(args, a.node)))

parse_function_call(P, name) ==
    LET l == ExpectDelimiter(P, "(", "expected '(' to start the call")
    IN  IF ~l.ok THEN R(NoNode, l.P)
        ELSE Bind(IF ~AtDelimiter(l.P, ")") THEN CallArgs(l.P, <<>>)
                  ELSE [ok |-> TRUE, args |-> <<>>, P |-> l.P], LAMBDA as :
                 IF ~as.ok THEN R(NoNode, as.P)
                 ELSE LET r == ExpectDelimiter(as.P, ")",
                                               "expected ')' to end the arguments")
                      IN  IF ~r.ok THEN R(NoNode, FreeEach(r.P, as.args))
                          ELSE Allocate(r.P, create_call(name, as.args)))

\* A faulty parse_primary that returns NULL at the end-of-file token without
\* recording an error; C38 does not hold of it.
parse_primary_SilentAtEndOfFile(P) ==
    LET token == current_token(P)
    IN  IF token = NoToken
        THEN R(NoNode, ParserErrorNoPos(P, KUNYU_ERROR_PARSER,
                                        "expected an expression, found end of file"))
        ELSE IF token.type \in {"KUNYU_TOKEN_NUMBER", "KUNYU_TOKEN_STRING"}
        THEN Allocate(advance(P), create_literal(token.type, token.value))
        ELSE IF token.type = "KUNYU_TOKEN_IDENTIFIER"
        THEN IF AtDelimiter(advance(P), "(")
             THEN parse_function_call(advance(P), token.value)
             ELSE Allocate(advance(P), create_variable(token.value))
        ELSE IF token.type = "KUNYU_TOKEN_DELIMITER" /\ token.value = "("
        THEN Bind(parse_expression(advance(P)), LAMBDA e :
                 IF e.node = NoNode THEN R(NoNode, e.P)
                 ELSE LET c == ExpectDelimiter(e.P, ")",
                                               "expected ')' to close the grouping")
                      IN  IF ~c.ok THEN R(NoNode, ast_free(c.P, e.node))
                          ELSE Allocate(c.P, create_grouping(e.node)))
        ELSE IF token.type = "KUNYU_TOKEN_EOF" THEN R(NoNode, P)
        ELSE R(NoNode, ParserError(P, KUNYU_ERROR_PARSER,
                                   "expected an expression, found: " \o token.value,
                                   token))

parse_primary(P) ==
    LET token == current_token(P)
    IN  IF token = NoToken
        THEN R(NoNode, ParserErrorNoPos(P, KUNYU_ERROR_PARSER,
                                        "expected an expression, found end of file"))
        ELSE IF token.type \in {"KUNYU_TOKEN_NUMBER", "KUNYU_TOKEN_STRING"}
        THEN Allocate(advance(P), create_literal(token.type, token.value))
        ELSE IF token.type = "KUNYU_TOKEN_IDENTIFIER"
        THEN IF AtDelimiter(advance(P), "(")
             THEN parse_function_call(advance(P), token.value)
             ELSE Allocate(advance(P), create_variable(token.value))
        ELSE IF token.type = "KUNYU_TOKEN_DELIMITER" /\ token.value = "("
        THEN Bind(parse_expression(advance(P)), LAMBDA e :
                 IF e.node = NoNode THEN R(NoNode, e.P)
                 ELSE LET c == ExpectDelimiter(e.P, ")",
                                               "expected ')' to close the grouping")
                      IN  IF ~c.ok THEN R(NoNode, ast_free(c.P, e.node))
                          ELSE Allocate(c.P, create_grouping(e.node)))
        ELSE R(NoNode, ParserError(P, KUNYU_ERROR_PARSER,
                                   "expected an expression, found: " \o token.value,
                                   token))

\* A faulty parse_binary_expr that parses all that follows the operator as its
\* right operand, nesting a chain to the right; C19 does not hold of it.
parse_binary_expr_RightNested(P, left) ==
    LET op == current_token(P)
        P1 == advance(P)
        op_type == BinaryOpOf(op.value)
    IN  IF op_type = "NONE"
        THEN R(NoNode, ParserError(ast_free(P1, left), KUNYU_ERROR_PARSER,
                                   "unsupported operator: " \o op.value, op))
        ELSE Bind(parse_expression(P1), LAMBDA right :
                 IF right.node = NoNode THEN R(NoNode, ast_free(right.P, left))
                 ELSE Allocate(right.P, create_binary(left, op_type, right.node)))

parse_binary_expr(P, left) ==
    LET op == current_token(P)
        P1 == advance(P)
        op_type == BinaryOpOf(op.value)
    IN  IF op_type = "NONE"
        THEN R(NoNode, ParserError(ast_free(P1, left), KUNYU_ERROR_PARSER,
                                   "unsupported operator: " \o op.value, op))
        ELSE Bind(parse_primary(P1), LAMBDA right :
                 IF right.node = NoNode THEN R(NoNode, ast_free(right.P, left))
                 ELSE Bind(Allocate(right.P,
                                    create_binary(left, op_type, right.node)),
                           LAMBDA binary :
                          IF current_token(binary.P) # NoToken
                             /\ current_token(binary.P).type = "KUNYU_TOKEN_OPERATOR"
                          THEN parse_binary_expr(binary.P, binary.node)
                          ELSE binary))

parse_expression(P) ==
    IF /\ check(P, "KUNYU_TOKEN_IDENTIFIER")
       /\ peek_token(P) # NoToken
       /\ peek_token(P).type = "KUNYU_TOKEN_OPERATOR"
       /\ peek_token(P).value = "="
    THEN Bind(parse_expression(advance(advance(P))), LAMBDA value :
             IF value.node = NoNode THEN R(NoNode, value.P)
             ELSE Allocate(value.P,
                           create_assign(current_token(P).value, value.node)))
    ELSE Bind(parse_primary(P), LAMBDA expr :
             IF expr.node = NoNode THEN R(NoNode, expr.P)
             ELSE IF current_token(expr.P) # NoToken
                     /\ current_token(expr.P).type = "KUNYU_TOKEN_OPERATOR"
             THEN parse_binary_expr(expr.P, expr.node)
             ELSE R(expr.node, expr.P))

parse_print_stmt(P) ==
    LET k == expect_keyword(P, "print", "expected 'print'")
    IN  IF k.tok = NoToken THEN R(NoNode, k.P)
        ELSE Bind(parse_expression(k.P), LAMBDA expr :
                 IF expr.node = NoNode THEN R(NoNode, expr.P)
                 ELSE LET semi == ExpectDelimiter(expr.P, ";",
                                                  "expected ';' to end the print statement")
                      IN  IF ~semi.ok THEN R(NoNode, ast_free(semi.P, expr.node))
                          ELSE Allocate(semi.P, create_print(expr.node)))

parse_var_decl(P) ==
    LET is_constant == check_keyword(P, "constant")
        name == expect(advance(P), "KUNYU_TOKEN_IDENTIFIER", "expected a variable name")
        equals == expect(name.P, "KUNYU_TOKEN_OPERATOR", "expected '='")
    IN  IF name.tok = NoToken THEN R(NoNode, name.P)
        ELSE IF equals.tok = NoToken \/ equals.tok.value # "="
        THEN R(NoNode, equals.P)
        ELSE Bind(parse_expression(equals.P), LAMBDA init :
                 IF init.node = NoNode THEN R(NoNode, init.P)
                 ELSE LET semi == ExpectDelimiter(init.P, ";",
                                                  "expected ';' to end the declaration")
                      IN  IF ~semi.ok THEN R(NoNode, ast_free(semi.P, init.node))
                          ELSE Allocate(semi.P,
                                        create_var_decl(name.tok.value, init.node,
                                                        is_constant)))

\* `keyword ( expression ) {` of the if and loop statements, after the keyword:
\* [ok, condition, P].
ConditionHeader(P, what) ==
    LET l == ExpectDelimiter(P, "(", "expected '(' to start the " \o what)
    IN  IF ~l.ok THEN [ok |-> FALSE, condition |-> NoNode, P |-> l.P]
        ELSE Bind(parse_expression(l.P), LAMBDA c :
                 IF c.node = NoNode THEN [ok |-> FALSE, condition |-> NoNode, P |-> c.P]
                 ELSE LET r == ExpectDelimiter(c.P, ")",
                                               "expected ')' to end the " \o what)
                          b == ExpectDelimiter(r.P, "{",
                                               "expected '{' to start the block")
                      IN  IF ~r.ok
                          THEN [ok |-> FALSE, condition |-> NoNode,
                                P |-> ast_free(r.P, c.node)]
                          ELSE [ok |-> b.ok,
                                condition |-> IF b.ok THEN c.node ELSE NoNode,
                                P |-> IF b.ok THEN b.P ELSE ast_free(b.P, c.node)])

\* The else part of parse_if_stmt, the keyword `else` consumed: P, the
\* condition and the then block parsed before it.
ElseBranch(P, condition, then_branch) ==
    IF check_keyword(P, "if")
    THEN Bind(parse_if_stmt(P), LAMBDA else_if :
             IF else_if.node = NoNode
             THEN R(NoNode, ast_free(ast_free(else_if.P, condition), then_branch))
             ELSE Allocate(else_if.P,
                           create_if(condition, then_branch, else_if.node)))
    ELSE LET b == ExpectDelimiter(P, "{", "expected '{' to start the else block")
         IN  IF ~b.ok
             THEN R(NoNode, ast_free(ast_free(b.P, condition), then_branch))
             ELSE Bind(parse_block(b.P), LAMBDA else_branch :
                      IF else_branch.node = NoNode
                      THEN R(NoNode, ast_free(ast_free(else_branch.P, condition),
                                              then_branch))
                      ELSE Allocate(else_branch.P,
                                    create_if(condition, then_branch,
                                              else_branch.node)))

parse_if_stmt(P) ==
    LET k == expect_keyword(P, "if", "expected 'if'")
    IN  IF k.tok = NoToken THEN R(NoNode, k.P)
        ELSE Bind(ConditionHeader(k.P, "condition"), LAMBDA h :
                 IF ~h.ok THEN R(NoNode, h.P)
                 ELSE Bind(parse_block(h.P), LAMBDA then_branch :
                          IF then_branch.node = NoNode
                          THEN R(NoNode, ast_free(then_branch.P, h.condition))
                          ELSE LET e == match_keyword(then_branch.P, "else")
                               IN  IF ~e.ok
                                   THEN Allocate(e.P,
                                            create_if(h.condition, then_branch.node,
                                                      NoNode))
                                   ELSE ElseBranch(e.P, h.condition,
                                                   then_branch.node)))

parse_loop_stmt(P) ==
    LET k == expect_keyword(P, "loop", "expected 'loop'")
    IN  IF k.tok = NoToken THEN R(NoNode, k.P)
        ELSE Bind(ConditionHeader(k.P, "loop condition"), LAMBDA h :
                 IF ~h.ok THEN R(NoNode, h.P)
                 ELSE Bind(parse_block(h.P), LAMBDA body :
                          IF body.node = NoNode
                          THEN R(NoNode, ast_free(body.P, h.condition))
                          ELSE Allocate(body.P, create_loop(h.condition, body.node))))

\* One turn of a statement loop is over: the loop was at token `from` when
\* it called parse_statement, P is the context at the end of the turn,
\* `stopped` tells that the loop returned in this turn.  `turns` is not a
\* field of the source's ParserContext: it lists the turns of the statement
\* loops of parse_program and parse_block in the order they ended.
Turn(P, from, node, stopped) ==
    [P EXCEPT !.turns = Append(@, [from |-> from, to |-> P.current,
                                   node |-> node # NoNode, stopped |-> stopped,
                                   error |-> P.error.code])]

\* The statement loop of parse_block: statements parsed so far.
BlockStatements(P, statements) ==
    IF AtDelimiter(P, "}") THEN [ok |-> TRUE, statements |-> statements, P |-> P]
    ELSE Bind(parse_statement(P), LAMBDA stmt :
             IF stmt.node = NoNode
             THEN [ok |-> FALSE, statements |-> <<>>,
                   P |-> Turn(FreeEach(stmt.P, statements), P.current, NoNode, TRUE)]
             ELSE IF check(SkipNewlines(stmt.P), "KUNYU_TOKEN_EOF")
             THEN [ok |-> FALSE, statements |-> <<>>,
                   P |-> Turn(ParserErrorNoPos(
                                  FreeEach(SkipNewlines(stmt.P),
                                           Append(statements, stmt.node)),
                                  KUNYU_ERROR_PARSER, "block not closed, expected '}'"),
                              P.current, stmt.node, TRUE)]
             ELSE BlockStatements(Turn(SkipNewlines(stmt.P), P.current, stmt.node,
                                       FALSE),
                                  Append(statements, stmt.node)))

parse_block(P) ==
    Bind(BlockStatements(SkipNewlines(P), <<>>), LAMBDA b :
        IF ~b.ok THEN R(NoNode, b.P)
        ELSE LET r == ExpectDelimiter(b.P, "}", "expected '}' to end the block")
             IN  IF ~r.ok THEN R(NoNode, FreeEach(r.P, b.statements))
                 ELSE Allocate(r.P, create_block(b.statements)))

\* The parameter loop of parse_function_decl: params parsed so far.
FunctionParams(P, params) ==
    LET param == expect(P, "KUNYU_TOKEN_IDENTIFIER", "expected a parameter name")
    IN  IF param.tok = NoToken THEN [ok |-> FALSE, params |-> <<>>, P |-> param.P]
        ELSE IF AtDelimiter(param.P, ")")
        THEN [ok |-> TRUE, params |-> Append(params, param.tok.value), P |-> param.P]
        ELSE LET c == ExpectDelimiter(param.P, ",", "expected ',' between parameters")
             IN  IF ~c.ok THEN [ok |-> FALSE, params |-> <<>>, P |-> c.P]
                 ELSE FunctionParams(c.P, Append(params, param.tok.value))

\* The body of parse_function_decl, name and parameters parsed.
FunctionBody(P, name, params) ==
    LET r == ExpectDelimiter(P, ")", "expected ')' to end the parameters")
        b == ExpectDelimiter(r.P, "{", "expected '{' to start the function body")
    IN  IF ~r.ok THEN R(NoNode, r.P)
        ELSE IF ~b.ok THEN R(NoNode, b.P)
        ELSE Bind(parse_block(b.P), LAMBDA body :
                 IF body.node = NoNode THEN R(NoNode, body.P)
                 ELSE Allocate(body.P, create_function(name, params, body.node)))

parse_function_decl(P) ==
    LET k == expect_keyword(P, "function", "expected 'function'")
        name == expect(k.P, "KUNYU_TOKEN_IDENTIFIER", "expected a function name")
        l == ExpectDelimiter(name.P, "(", "expected '(' to start the parameters")
    IN  IF k.tok = NoToken THEN R(NoNode, k.P)
        ELSE IF name.tok = NoToken THEN R(NoNode, name.P)
        ELSE IF ~l.ok THEN R(NoNode, l.P)
        ELSE Bind(IF ~AtDelimiter(l.P, ")") THEN FunctionParams(l.P, <<>>)
                  ELSE [ok |-> TRUE, params |-> <<>>, P |-> l.P], LAMBDA ps :
                 IF ~ps.ok THEN R(NoNode, ps.P)
                 ELSE FunctionBody(ps.P, name.tok.value, ps.params))

parse_return_stmt(P) ==
    LET k == expect_keyword(P, "return", "expected 'return'")
    IN  IF k.tok = NoToken THEN R(NoNode, k.P)
        ELSE Bind(parse_expression(k.P), LAMBDA value :
                 IF value.node = NoNode THEN R(NoNode, value.P)
                 ELSE LET semi == ExpectDelimiter(value.P, ";",
                                      "expected ';' to end the return statement")
                      IN  IF ~semi.ok THEN R(NoNode, ast_free(semi.P, value.node))
                          ELSE Allocate(semi.P, create_return(value.node)))

\* The expression statement of parse_statement.  The test after the
\* expression is `!match(KUNYU_TOKEN_DELIMITER) ||
\* strcmp(current_token()->value, ";") != 0`: match consumes the delimiter and
\* the text compared is that of the token after it.
ExpressionStatement(P) ==
    Bind(parse_expression(P), LAMBDA expr :
        IF expr.node = NoNode THEN R(NoNode, expr.P)
        ELSE LET m == match(expr.P, "KUNYU_TOKEN_DELIMITER")
             IN  IF ~m.ok \/ current_token(m.P).value # ";"
                 THEN R(NoNode, ParserError(ast_free(m.P, expr.node),
                                   KUNYU_ERROR_PARSER,
                                   "expected ';' to end the expression statement",
                                   current_token(m.P)))
                 ELSE Allocate(advance(m.P), create_expression_stmt(expr.node)))

parse_statement(P) ==
    IF check_keyword(P, "print") THEN parse_print_stmt(P)
    ELSE IF check_keyword(P, "variable") \/ check_keyword(P, "constant")
    THEN parse_var_decl(P)
    ELSE IF check_keyword(P, "if") THEN parse_if_stmt(P)
    ELSE IF check_keyword(P, "loop") THEN parse_loop_stmt(P)
    ELSE IF check_keyword(P, "function") THEN parse_function_decl(P)
    ELSE IF check_keyword(P, "return") THEN parse_return_stmt(P)
    ELSE ExpressionStatement(P)

\* The statement loop of parse_program: the program node with the statements
\* added so far.  `dropped` is
\* not a field of the source's ParserContext: it counts the turns of the loop
\* in which parse_statement returned NULL with no error recorded, after which
\* the loop goes on with the next token.
ProgramStatements(P, program) ==
    IF ~(P.current < P.token_count /\ ~check(P, "KUNYU_TOKEN_EOF"))
    THEN R(program, P)
    ELSE Bind(parse_statement(P), LAMBDA stmt :
             IF stmt.node # NoNode
             THEN ProgramStatements(Turn(SkipNewlines(stmt.P), P.current, stmt.node,
                                         FALSE),
                                    program_add_statement(program, stmt.node))
             ELSE IF stmt.P.error.code # KUNYU_OK
             THEN R(NoNode, Turn(ast_free(stmt.P, program), P.current, NoNode, TRUE))
             ELSE ProgramStatements(
                      Turn(SkipNewlines([stmt.P EXCEPT !.dropped = @ + 1]),
                           P.current, NoNode, FALSE), program))

parse_program(P) ==
    Bind(Allocate(P, create_program(<<>>)), LAMBDA program :
        ProgramStatements(SkipNewlines(program.P), program.node))

parser_init(toks) ==
    [tokens |-> toks, token_count |-> Len(toks), current |-> 0, error |-> NoError,
     dropped |-> 0, created |-> 0, freed |-> <<>>, turns |-> <<>>]

\* parser_parse: [node, P]; P is the context parser_get_error then reads.  With
\* no tokens the context is left as it was (here: the initial one).
parser_parse(toks) ==
    IF Len(toks) = 0 THEN R(NoNode, parser_init(<<>>))
    ELSE parse_program(parser_init(toks))

-----------------------------------------------------------------------------
(* The token sequences the parser is run on: up to MaxPhrases phrases of a  *)
(* pool, concatenated, then the end-of-file token, as lexer_tokenize ends   *)
(* every sequence it returns.  A phrase is a list of <<type, text>>.        *)

KW(text) == <<"KUNYU_TOKEN_KEYWORD", text>>

ID(text) == <<"KUNYU_TOKEN_IDENTIFIER", text>>

NM(text) == <<"KUNYU_TOKEN_NUMBER", text>>

OP(text) == <<"KUNYU_TOKEN_OPERATOR", text>>

DL(text) == <<"KUNYU_TOKEN_DELIMITER", text>>

NL == <<"KUNYU_TOKEN_NEWLINE", "\n">>

Phrases ==
    { <<KW("print"), NM("1")>>,
      <<KW("print"), ID("x"), DL(";")>>,
      <<DL(";")>>,
      <<DL(")")>>,
      <<NL>>,
      <<KW("variable"), ID("x"), OP("="), NM("1")>>,
      <<KW("variable"), ID("x"), OP("+"), NM("1")>>,
      <<KW("constant"), ID("x"), OP("="), NM("1"), DL(";")>>,
      <<ID("x"), OP("="), NM("2")>>,
      <<NM("2"), OP("+"), NM("3"), OP("*"), NM("4")>>,
      <<NM("2"), OP("+")>>,
      <<ID("f"), DL("("), ID("x"), DL(")")>>,
      <<KW("if"), DL("("), ID("x"), DL(")"), DL("{")>>,
      <<DL("}")>>,
      <<KW("return"), NM("1"), DL(";")>> }

RECURSIVE Flatten(_)
Flatten(phrases) ==
    IF phrases = <<>> THEN <<>> ELSE Head(phrases) \o Flatten(Tail(phrases))

\* The Token array of a list of <<type, text>>, the end-of-file token added:
\* one line, the column the position in the list.
TokenArray(pairs) ==
    [k \in 1..(Len(pairs) + 1) |->
        IF k <= Len(pairs) THEN Token(pairs[k][1], pairs[k][2], 1, k)
        ELSE Token("KUNYU_TOKEN_EOF", "", 1, k)]

TokenInputs == {TokenArray(Flatten(ps)) : ps \in SeqsUpTo(Phrases, MaxPhrases)}

\* parser_parse on the token array, and what the caller then sees: the tree
\* returned, parser_get_error, and how far the parser read; with them the
\* number of nodes the parse allocated, the addresses it freed and the
\* addresses of the nodes of the tree returned.
ParserParse ==
    /\ ~parsed.done
    /\ LET r == parser_parse(tokens)
       IN  parsed' = [done |-> TRUE, ast |-> Shape(r.node), error |-> r.P.error,
                      current |-> r.P.current, dropped |-> r.P.dropped,
                      created |-> r.P.created, freed |-> r.P.freed,
                      nodes |-> Addresses(r.node), turns |-> r.P.turns]
    /\ UNCHANGED <<evalVars, tokens, otherVars>>

InitParser ==
    /\ phase = "idle"
    /\ root = NoNode
    /\ result = FALSE
    /\ stack = <<>>
    /\ ret = NoRet
    /\ current_scope = <<>>
    /\ function_table = <<>>
    /\ builtin_funcs = <<>>
    /\ interpreter = [error |-> NoError, has_return |-> FALSE, return_value |-> NULL]
    /\ output = <<>>
    /\ references = NoReferences
    /\ tokens \in TokenInputs
    /\ parsed = NoParse
    /\ heap = Unused
    /\ lexer = Unused
    /\ repl = Unused

NextParser == ParserParse

SpecParser == InitParser /\ [][NextParser]_vars

-----------------------------------------------------------------------------
(* The whole run of main on a source file (src/unnamed/part_002): the token *)
(* array goes to parser_parse and the tree it returns to                    *)
(* interpreter_execute.  The sources are print statements of arithmetic:    *)
(* `print p0 op1 p1 ... opn pn ;` with up to MaxOperators operators, and    *)
(* `print a / b ;` and `print a % b ;` over operands of either sign, whole  *)
(* and fractional.                                                          *)

MaxOperators == 2

\* The primaries of a chain: three numbers and a grouping.
ChainPrimaries ==
    { <<NM("2")>>, <<NM("3")>>, <<NM("4")>>,
      <<DL("("), NM("2"), OP("+"), NM("3"), DL(")")>> }

\* p0 op1 p1 ... with up to n operators out of +, * and <.
RECURSIVE Chains(_)
Chains(n) ==
    IF n = 0 THEN ChainPrimaries
    ELSE LET shorter == Chains(n - 1)
         IN  shorter \cup {c \o <<OP(o)>> \o p :
                              c \in shorter, o \in {"+", "*", "<"}, p \in ChainPrimaries}

\* The operands of a division or remainder: 0, 2, 3, 0.5, -3 and -0.5.
DivisionOperands ==
    { <<NM("0")>>, <<NM("2")>>, <<NM("3")>>, <<NM("0.5")>>,
      <<DL("("), NM("0"), OP("-"), NM("3"), DL(")")>>,
      <<DL("("), NM("0"), OP("-"), NM("0.5"), DL(")")>> }

MainInputs ==
    {TokenArray(<<KW("print")>> \o c \o <<DL(";")>>) : c \in Chains(MaxOperators)}
    \cup {TokenArray(<<KW("print")>> \o a \o <<OP(o)>> \o b \o <<DL(";")>>) :
             a \in DivisionOperands, o \in {"/", "%"}, b \in DivisionOperands}

\* main: interpreter_execute on the tree parser_parse returned, up to its call
\* of execute_program; with no tree main returns before it.
MainExecute ==
    /\ phase = "idle"
    /\ parsed.done
    /\ parsed.ast # NoNode
    /\ root' = parsed.ast
    /\ LET S == interpreter_init(Cur)
       IN  Set([S EXCEPT !.phase = "running",
                         !.stack = <<Frame("execute_program", parsed.ast, S)>>])
    /\ UNCHANGED <<result, tokens, parsed, otherVars>>

InitMain ==
    /\ phase = "idle"
    /\ root = NoNode
    /\ result = FALSE
    /\ stack = <<>>
    /\ ret = NoRet
    /\ current_scope = <<>>
    /\ function_table = <<>>
    /\ builtin_funcs = <<>>
    /\ interpreter = [error |-> NoError, has_return |-> FALSE, return_value |-> NULL]
    /\ output = <<>>
    /\ references = NoReferences
    /\ tokens \in MainInputs
    /\ parsed = NoParse
    /\ heap = Unused
    /\ lexer = Unused
    /\ repl = Unused

NextMain ==
    \/ ParserParse
    \/ MainExecute
    \/ InterpreterExecuteReturn
    \/ ExecuteProgram
    \/ ExecuteStatement
    \/ ExecPrintStmt
    \/ EvalExpression
    \/ EvalBinaryExpr

SpecMain == InitMain /\ [][NextMain]_vars

-----------------------------------------------------------------------------
(* The object system (src/unnamed/part_000) and the three places of the     *)
(* interpreter that hold a value in a variable.  heap.objs is every         *)
(* PyObject allocated so far, a pointer being the index of its object and 0 *)
(* the null pointer; an object that was freed stays in the sequence, marked,*)
(* with the number of times free was called on it.  heap.held[o] counts the *)
(* references to o the calling code owns: one from the constructor or the   *)
(* getter that returned o, given up by py_decref.  The calling code passes  *)
(* only objects it owns a reference to, as the builtins pass the values of  *)
(* their evaluated arguments.  Where heap.cyclic is false it builds no       *)
(* cycle: a container is handed objects allocated after it; where it is     *)
(* true a list is handed any object, itself included.  heap.variables is    *)
(* one scope's variable list.  heap.last is the call made last and what it  *)
(* returned.                                                                *)

MaxObjects == 3

MaxItems == 2

MaxHeld == 1

\* An object as its constructor leaves it: reference count 1.
NewObject(type, str) ==
    [type |-> type, ref_count |-> 1, freed |-> FALSE, frees |-> 0, str |-> str,
     items |-> <<>>, pairs |-> <<>>]

py_incref(O, obj) ==
    IF obj = 0 THEN O ELSE [O EXCEPT ![obj].ref_count = @ + 1]

\* py_decref that frees an object without running its destructor.
py_decref_NoDestructor(O, obj) ==
    IF obj = 0 THEN O
    ELSE IF O[obj].ref_count - 1 > 0 THEN [O EXCEPT ![obj].ref_count = @ - 1]
    ELSE [O EXCEPT ![obj].ref_count = @ - 1, ![obj].freed = TRUE,
                   ![obj].frees = @ + 1]

\* py_decref with the destructors: list_destructor and dict_destructor
\* release what the container holds, slot by slot, before free.
RECURSIVE py_decref(_, _), DecrefAll(_, _)
py_decref(O, obj) ==
    IF obj = 0 THEN O
    ELSE IF O[obj].ref_count - 1 > 0 THEN [O EXCEPT ![obj].ref_count = @ - 1]
    ELSE LET owned == IF O[obj].type = "TYPE_LIST" THEN O[obj].items
                      ELSE IF O[obj].type = "TYPE_DICT" THEN O[obj].pairs
                      ELSE <<>>
         IN  [DecrefAll([O EXCEPT ![obj].ref_count = @ - 1], owned)
                 EXCEPT ![obj].freed = TRUE, ![obj].frees = @ + 1]

\* The loop of a destructor: py_decref of every pointer of the sequence, the
\* key and then the value of a dictionary item.
DecrefAll(O, owned) ==
    IF owned = <<>> THEN O
    ELSE DecrefAll(py_decref(O, Head(owned)), Tail(owned))

\* py_list_append that stores the item without taking a reference to it.
py_list_append_Borrowed(O, list, item) ==
    IF list = 0 \/ O[list].type # "TYPE_LIST" \/ item = 0
    THEN [ok |-> FALSE, O |-> O]
    ELSE [ok |-> TRUE, O |-> [O EXCEPT ![list].items = Append(@, item)]]

py_list_append(O, list, item) ==
    IF list = 0 \/ O[list].type # "TYPE_LIST" \/ item = 0
    THEN [ok |-> FALSE, O |-> O]
    ELSE [ok |-> TRUE,
          O |-> py_incref([O EXCEPT ![list].items = Append(@, item)], item)]

\* py_list_get that returns the item without a reference of its own.
py_list_get_Borrowed(O, list, index) ==
    IF list = 0 \/ O[list].type # "TYPE_LIST" THEN [v |-> 0, O |-> O]
    ELSE IF index >= Len(O[list].items) THEN [v |-> 0, O |-> O]
    ELSE [v |-> O[list].items[index + 1], O |-> O]

\* py_list_get: the item with one more reference, 0 for NULL.
py_list_get(O, list, index) ==
    IF list = 0 \/ O[list].type # "TYPE_LIST" THEN [v |-> 0, O |-> O]
    ELSE IF index >= Len(O[list].items) THEN [v |-> 0, O |-> O]
    ELSE [v |-> O[list].items[index + 1],
          O |-> py_incref(O, O[list].items[index + 1])]

py_list_set(O, list, index, item) ==
    IF list = 0 \/ O[list].type # "TYPE_LIST" \/ item = 0
    THEN [ok |-> FALSE, O |-> O]
    ELSE IF index >= Len(O[list].items) THEN [ok |-> FALSE, O |-> O]
    ELSE LET O1 == py_decref(O, O[list].items[index + 1])
         IN  [ok |-> TRUE,
              O |-> py_incref([O1 EXCEPT ![list].items[index + 1] = item], item)]

\* py_dict_find_index that also matches a key that is the same object.
py_dict_find_index_ByIdentity(O, dict, key) ==
    LET size == Len(O[dict].pairs) \div 2
        Same(i) == \/ key = O[dict].pairs[2 * i + 1]
                   \/ /\ O[key].type = "TYPE_STRING"
                      /\ O[O[dict].pairs[2 * i + 1]].type = "TYPE_STRING"
                      /\ O[key].str = O[O[dict].pairs[2 * i + 1]].str
    IN  IF \E i \in 0..(size - 1) : Same(i)
        THEN CHOOSE i \in 0..(size - 1) : Same(i) /\ \A j \in 0..(i - 1) : ~Same(j)
        ELSE -1

\* py_dict_find_index: the 0-based index of the first item whose key is a
\* string equal to the string key, -1 when there is none.  pairs holds key and
\* value of item i at 2i+1 and 2i+2.
py_dict_find_index(O, dict, key) ==
    LET size == Len(O[dict].pairs) \div 2
        KeyAt(i) == /\ O[key].type = "TYPE_STRING"
                    /\ O[O[dict].pairs[2 * i + 1]].type = "TYPE_STRING"
                    /\ O[key].str = O[O[dict].pairs[2 * i + 1]].str
    IN  IF \E i \in 0..(size - 1) : KeyAt(i)
        THEN CHOOSE i \in 0..(size - 1) :
                KeyAt(i) /\ \A j \in 0..(i - 1) : ~KeyAt(j)
        ELSE -1

\* py_dict_set that takes a reference to the key of an item it replaces the
\* value of.
py_dict_set_CountsKeyAgain(O, dict, key, value) ==
    IF dict = 0 \/ O[dict].type # "TYPE_DICT" \/ key = 0 \/ value = 0
    THEN [ok |-> FALSE, O |-> O]
    ELSE LET index == py_dict_find_index(O, dict, key)
         IN  IF index >= 0
             THEN LET O1 == py_decref(O, O[dict].pairs[2 * index + 2])
                  IN  [ok |-> TRUE,
                       O |-> py_incref(py_incref(
                                 [O1 EXCEPT ![dict].pairs[2 * index + 2] = value],
                                 value), key)]
             ELSE [ok |-> TRUE,
                   O |-> py_incref(py_incref(
                             [O EXCEPT ![dict].pairs = @ \o <<key, value>>], key),
                             value)]

py_dict_set(O, dict, key, value) ==
    IF dict = 0 \/ O[dict].type # "TYPE_DICT" \/ key = 0 \/ value = 0
    THEN [ok |-> FALSE, O |-> O]
    ELSE LET index == py_dict_find_index(O, dict, key)
         IN  IF index >= 0
             THEN LET O1 == py_decref(O, O[dict].pairs[2 * index + 2])
                  IN  [ok |-> TRUE,
                       O |-> py_incref([O1 EXCEPT ![dict].pairs[2 * index + 2] = value],
                                       value)]
             ELSE [ok |-> TRUE,
                   O |-> py_incref(py_incref(
                             [O EXCEPT ![dict].pairs = @ \o <<key, value>>], key),
                             value)]

py_dict_get(O, dict, key) ==
    IF dict = 0 \/ O[dict].type # "TYPE_DICT" \/ key = 0 THEN [v |-> 0, O |-> O]
    ELSE LET index == py_dict_find_index(O, dict, key)
         IN  IF index >= 0
             THEN [v |-> O[dict].pairs[2 * index + 2],
                   O |-> py_incref(O, O[dict].pairs[2 * index + 2])]
             ELSE [v |-> 0, O |-> O]

\* Index of the entry of the variable list named name, 0 when there is none.
VariableNamed(name) ==
    IF \E k \in 1..Len(heap.variables) : heap.variables[k].name = name
    THEN CHOOSE k \in 1..Len(heap.variables) : heap.variables[k].name = name
    ELSE 0

\* The objects the calling code owns a reference to.
Owned == {o \in 1..Len(heap.objs) : heap.held[o] > 0}

\* The step leaves all but heap as it is and records the call: what was
\* called with which arguments, whether it succeeded and the pointer it
\* returned.
ObjectStep(op, args, ok, out, O, held, variables) ==
    /\ heap' = [objs |-> O, held |-> held, variables |-> variables,
                cyclic |-> heap.cyclic,
                last |-> [op |-> op, args |-> args, ok |-> ok, out |-> out]]
    /\ UNCHANGED <<evalVars, parseVars, lexer, repl>>

\* What the four constructors make, in the order objects are allocated in: the
\* object system treats every pointer alike, so an allocation order stands
\* for all its permutations.
Constructors ==
    <<[type |-> "TYPE_DICT", str |-> ""], [type |-> "TYPE_LIST", str |-> ""],
      [type |-> "TYPE_STRING", str |-> "a"], [type |-> "TYPE_STRING", str |-> "b"],
      [type |-> "TYPE_NUMBER", str |-> ""]>>

\* py_number_new, py_string_new, py_list_new, py_dict_new.
PyNew ==
    /\ Len(heap.objs) < MaxObjects
    /\ \E c \in 1..Len(Constructors) :
          /\ \A o \in 1..Len(heap.objs) :
                \E b \in 1..c : /\ Constructors[b].type = heap.objs[o].type
                                /\ Constructors[b].str = heap.objs[o].str
          /\ ObjectStep("new", <<>>, TRUE, Len(heap.objs) + 1,
                        Append(heap.objs,
                               NewObject(Constructors[c].type, Constructors[c].str)),
                        Append(heap.held, 1), heap.variables)

\* The calling code gives up a reference of its own.
PyDecref ==
    \E obj \in Owned :
        ObjectStep("py_decref", <<obj>>, TRUE, 0, py_decref(heap.objs, obj),
                   [heap.held EXCEPT ![obj] = @ - 1], heap.variables)

PyListAppend ==
    \E list \in Owned, item \in Owned :
        /\ item > list \/ heap.cyclic
        /\ Len(heap.objs[list].items) < MaxItems
        /\ LET r == py_list_append(heap.objs, list, item)
           IN  ObjectStep("py_list_append", <<list, item>>, r.ok, 0, r.O,
                          heap.held, heap.variables)

\* A getter's caller owns the reference it is handed.
PyListGet ==
    \E list \in Owned, index \in 0..MaxItems :
        LET r == py_list_get(heap.objs, list, index)
        IN  /\ r.v # 0 => heap.held[r.v] < MaxHeld
            /\ ObjectStep("py_list_get", <<list, index>>, r.v # 0, r.v, r.O,
                          IF r.v = 0 THEN heap.held
                          ELSE [heap.held EXCEPT ![r.v] = @ + 1], heap.variables)

PyListSet ==
    \E list \in Owned, index \in 0..MaxItems, item \in Owned :
        LET r == py_list_set(heap.objs, list, index, item)
        IN  /\ item > list \/ heap.cyclic
            /\ ObjectStep("py_list_set", <<list, index, item>>, r.ok, 0, r.O,
                          heap.held, heap.variables)

PyDictSet ==
    \E dict \in Owned, key \in Owned, value \in Owned :
        /\ key > dict /\ value > dict
        /\ \/ Len(heap.objs[dict].pairs) < 2 * MaxItems
           \/ heap.objs[dict].type = "TYPE_DICT"
              /\ py_dict_find_index(heap.objs, dict, key) >= 0
        /\ LET r == py_dict_set(heap.objs, dict, key, value)
           IN  ObjectStep("py_dict_set", <<dict, key, value>>, r.ok, 0, r.O,
                          heap.held, heap.variables)

PyDictGet ==
    \E dict \in Owned, key \in Owned :
        LET r == py_dict_get(heap.objs, dict, key)
        IN  /\ r.v # 0 => heap.held[r.v] < MaxHeld
            /\ ObjectStep("py_dict_get", <<dict, key>>, r.v # 0, r.v, r.O,
                          IF r.v = 0 THEN heap.held
                          ELSE [heap.held EXCEPT ![r.v] = @ + 1], heap.variables)

\* define_variable (a declaration, the binding of a parameter): a name the
\* scope holds is refused, a new entry takes a reference to the value.
DefineVariable ==
    \E name \in {"x"}, value \in Owned :
        IF VariableNamed(name) # 0
        THEN ObjectStep("define_variable", <<name, value>>, FALSE, 0, heap.objs,
                        heap.held, heap.variables)
        ELSE ObjectStep("define_variable", <<name, value>>, TRUE, 0,
                        py_incref(heap.objs, value), heap.held,
                        <<[name |-> name, value |-> value]>> \o heap.variables)

\* set_variable (an assignment): the entry gives up the value it held and
\* takes a reference to the new one.
SetVariable ==
    \E name \in {"x"}, value \in Owned :
        LET k == VariableNamed(name)
        IN  IF k = 0
            THEN ObjectStep("set_variable", <<name, value>>, FALSE, 0, heap.objs,
                            heap.held, heap.variables)
            ELSE ObjectStep("set_variable", <<name, value>>, TRUE, 0,
                            py_incref(py_decref(heap.objs, heap.variables[k].value),
                                      value),
                            heap.held, [heap.variables EXCEPT ![k].value = value])

InitObjects ==
    /\ phase = "idle"
    /\ root = NoNode
    /\ result = FALSE
    /\ stack = <<>>
    /\ ret = NoRet
    /\ current_scope = <<>>
    /\ function_table = <<>>
    /\ builtin_funcs = <<>>
    /\ interpreter = [error |-> NoError, has_return |-> FALSE, return_value |-> NULL]
    /\ output = <<>>
    /\ references = NoReferences
    /\ tokens = <<>>
    /\ parsed = NoParse
    /\ heap = [objs |-> <<>>, held |-> <<>>, variables |-> <<>>, cyclic |-> FALSE,
               last |-> [op |-> "", args |-> <<>>, ok |-> TRUE, out |-> 0]]
    /\ lexer = Unused
    /\ repl = Unused

NextObjects ==
    \/ PyNew
    \/ PyDecref
    \/ PyListAppend
    \/ PyListGet
    \/ PyListSet
    \/ PyDictSet
    \/ PyDictGet
    \/ DefineVariable
    \/ SetVariable

SpecObjects == InitObjects /\ [][NextObjects]_vars

\* The object system under calling code that builds cycles of lists.
InitCycles ==
    /\ phase = "idle"
    /\ root = NoNode
    /\ result = FALSE
    /\ stack = <<>>
    /\ ret = NoRet
    /\ current_scope = <<>>
    /\ function_table = <<>>
    /\ builtin_funcs = <<>>
    /\ interpreter = [error |-> NoError, has_return |-> FALSE, return_value |-> NULL]
    /\ output = <<>>
    /\ references = NoReferences
    /\ tokens = <<>>
    /\ parsed = NoParse
    /\ heap = [objs |-> <<>>, held |-> <<>>, variables |-> <<>>, cyclic |-> TRUE,
               last |-> [op |-> "", args |-> <<>>, ok |-> TRUE, out |-> 0]]
    /\ lexer = Unused
    /\ repl = Unused

NextCycles ==
    \/ PyNew
    \/ PyDecref
    \/ PyListAppend
    \/ PyListGet
    \/ PyListSet

SpecCycles == InitCycles /\ [][NextCycles]_vars

-----------------------------------------------------------------------------
(* The lexer (src/src/ast.c).  lexer is the LexerContext: source is the     *)
(* array of the bytes of the source text, each a string of its own, pos the *)
(* 0-based index of the current byte.  A token's value is the sequence of   *)
(* the bytes copied from the source.  status tells where lexer_tokenize is: *)
(* "reading" in its loop, "returned" with result the token count or -1.     *)

MaxChars == 3

KUNYU_ERROR_LEXER == "KUNYU_ERROR_LEXER"

\* The bytes a source is made of here: blank, line feed, '#', a letter, a
\* digit, '"', '=', a byte that starts no token, the lead byte of a two-byte
\* UTF-8 sequence and a UTF-8 continuation byte.
SourceChars == {" ", "\n", "#", "a", "1", "\"", "=", "@", "C3", "A9"}

HighBytes == {"C3", "A9"}

\* isalpha and isalnum of a char that is negative, as a byte above 0x7F is
\* where char is signed: neither a value of unsigned char nor EOF, so the
\* call is undefined; the C library answers from its table for the locale.
IsalnumHighByte == {FALSE, TRUE}

NUL == "NUL"

is_eof(L) == L.pos >= Len(L.source)

current_char(L) == IF is_eof(L) THEN NUL ELSE L.source[L.pos + 1]

lexer_advance(L) ==
    IF is_eof(L) THEN L
    ELSE IF L.source[L.pos + 1] = "\n"
    THEN [L EXCEPT !.pos = @ + 1, !.line = @ + 1, !.column = 1]
    ELSE [L EXCEPT !.pos = @ + 1, !.column = @ + 1]

\* add_token; the allocations succeed.
add_token(L, type, value, line, column) ==
    [ok |-> TRUE,
     L |-> [L EXCEPT !.tokens = Append(@, [type |-> type, value |-> value,
                                           line |-> line, column |-> column])]]

RECURSIVE skip_whitespace(_)
skip_whitespace(L) ==
    IF ~is_eof(L) /\ current_char(L) \in {" ", "\t", "\r"}
    THEN skip_whitespace(lexer_advance(L))
    ELSE L

\* The loop of skip_comment: to the end of the line or of the source.
RECURSIVE ToEndOfLine(_)
ToEndOfLine(L) ==
    IF ~is_eof(L) /\ current_char(L) # "\n" THEN ToEndOfLine(lexer_advance(L)) ELSE L

skip_comment(L) == ToEndOfLine(lexer_advance(L))

is_alpha(L, c) ==
    IF c \in HighBytes THEN L.high_alnum ELSE c \in {"a", "_"}

is_digit(c) == c = "1"

is_alnum(L, c) ==
    IF c \in HighBytes THEN L.high_alnum ELSE c \in {"a", "1", "_"}

\* (c & 0xC0) == 0xC0
is_utf8_start(c) == c = "C3"

\* utf8_char_length: 2 for a lead byte 110xxxxx, 1 for a byte below 0x80 and
\* for a continuation byte.
utf8_char_length(c) == IF c = "C3" THEN 2 ELSE 1

RECURSIVE AdvanceBy(_, _)
AdvanceBy(L, n) == IF n = 0 THEN L ELSE AdvanceBy(lexer_advance(L), n - 1)

\* read_utf8_char: ok is whether it returned a char.
read_utf8_char(L) ==
    IF is_eof(L) THEN [ok |-> FALSE, L |-> L]
    ELSE IF L.pos + utf8_char_length(current_char(L)) > Len(L.source)
    THEN [ok |-> FALSE, L |-> L]
    ELSE [ok |-> TRUE, L |-> AdvanceBy(L, utf8_char_length(current_char(L)))]

\* The loop of read_identifier after the first char.
RECURSIVE IdentifierRest(_)
IdentifierRest(L) ==
    IF is_eof(L) THEN L
    ELSE IF ~is_utf8_start(current_char(L))
    THEN IF ~is_alnum(L, current_char(L)) THEN L
         ELSE IdentifierRest(lexer_advance(L))
    ELSE IF ~read_utf8_char(L).ok THEN L
    ELSE IdentifierRest(read_utf8_char(L).L)

\* The bytes of the source from 0-based position from up to pos.
Lexeme(L, from) == SubSeq(L.source, from + 1, L.pos)

read_identifier(L) ==
    IF ~read_utf8_char(L).ok THEN [ok |-> FALSE, L |-> L, value |-> <<>>]
    ELSE LET L1 == IdentifierRest(read_utf8_char(L).L)
         IN  [ok |-> TRUE, L |-> L1, value |-> Lexeme(L1, L.pos)]

RECURSIVE NumberRest(_, _)
NumberRest(L, has_dot) ==
    IF is_eof(L) THEN L
    ELSE IF is_digit(current_char(L)) THEN NumberRest(lexer_advance(L), has_dot)
    ELSE IF current_char(L) = "." /\ ~has_dot THEN NumberRest(lexer_advance(L), TRUE)
    ELSE L

read_number(L) ==
    LET L1 == NumberRest(L, FALSE)
    IN  [ok |-> TRUE, L |-> L1, value |-> Lexeme(L1, L.pos)]

\* The loop of read_string: to the closing quote or the end of the source, a
\* backslash taking the char after it along.
RECURSIVE StringRest(_)
StringRest(L) ==
    IF is_eof(L) \/ current_char(L) = "\"" THEN L
    ELSE IF current_char(L) = "\\"
    THEN IF is_eof(lexer_advance(L)) THEN lexer_advance(L)
         ELSE StringRest(lexer_advance(lexer_advance(L)))
    ELSE StringRest(lexer_advance(L))

read_string(L) ==
    LET L0 == lexer_advance(L)
        L1 == StringRest(L0)
    IN  [ok |-> TRUE,
         L |-> IF ~is_eof(L1) /\ current_char(L1) = "\"" THEN lexer_advance(L1) ELSE L1,
         value |-> Lexeme(L1, L0.pos)]

LexerError(L, message, line, column) ==
    [L EXCEPT !.error = [code |-> KUNYU_ERROR_LEXER, message |-> message,
                         line |-> line, column |-> column]]

\* A faulty switch that skips a char it does not know and reads on; C27 does
\* not hold of it.
OperatorOrDelimiter_SkipsUnknown(L, c, line, column) ==
    LET L1 == lexer_advance(L)
    IN  IF c \in {"=", "<", ">", "!"} /\ current_char(L1) = "="
        THEN add_token(lexer_advance(L1), "KUNYU_TOKEN_OPERATOR", <<c, "=">>, line, column)
        ELSE IF c \in {"=", "+", "-", "*", "/", "%", "<", ">", "!", "&", "|"}
        THEN add_token(L1, "KUNYU_TOKEN_OPERATOR", <<c>>, line, column)
        ELSE IF c \in {"(", ")", "{", "}", "[", "]", ",", ".", ";"}
        THEN add_token(L1, "KUNYU_TOKEN_DELIMITER", <<c>>, line, column)
        ELSE [ok |-> TRUE, L |-> L1]

\* The switch of read_next_token on c, the current char.
OperatorOrDelimiter(L, c, line, column) ==
    LET L1 == lexer_advance(L)
        two(second) == add_token(lexer_advance(L1), "KUNYU_TOKEN_OPERATOR",
                                 <<c, second>>, line, column)
    IN  IF c \in {"=", "<", ">", "!"} /\ current_char(L1) = "=" THEN two("=")
        ELSE IF c \in {"&", "|"} /\ current_char(L1) = c THEN two(c)
        ELSE IF c \in {"=", "+", "-", "*", "/", "%", "<", ">", "!", "&", "|"}
        THEN add_token(L1, "KUNYU_TOKEN_OPERATOR", <<c>>, line, column)
        ELSE IF c \in {"(", ")", "{", "}", "[", "]", ",", ".", ";"}
        THEN add_token(L1, "KUNYU_TOKEN_DELIMITER", <<c>>, line, column)
        ELSE [ok |-> FALSE,
              L |-> lexer_advance(LexerError(L, "unknown character", line, column))]

\* No word of the keyword table can be written in SourceChars.
is_keyword(str) == FALSE

read_next_token(L0) ==
    LET L == skip_whitespace(L0)
        c == current_char(L)
        line == L.line
        column == L.column
    IN  IF is_eof(L) THEN add_token(L, "KUNYU_TOKEN_EOF", <<>>, L.line, L.column)
        ELSE IF c = "#" THEN [ok |-> TRUE, L |-> skip_comment(L)]
        ELSE IF c = "\n"
        THEN add_token(lexer_advance(L), "KUNYU_TOKEN_NEWLINE", <<"\n">>, line, column)
        ELSE IF is_alpha(L, c) \/ is_utf8_start(c)
        THEN LET r == read_identifier(L)
             IN  IF ~r.ok
                 THEN [ok |-> FALSE,
                       L |-> LexerError(L, "error reading an identifier", line, column)]
                 ELSE add_token(r.L, IF is_keyword(r.value) THEN "KUNYU_TOKEN_KEYWORD"
                                     ELSE "KUNYU_TOKEN_IDENTIFIER",
                                r.value, line, column)
        ELSE IF is_digit(c)
        THEN add_token(read_number(L).L, "KUNYU_TOKEN_NUMBER", read_number(L).value,
                       line, column)
        ELSE IF c = "\""
        THEN add_token(read_string(L).L, "KUNYU_TOKEN_STRING", read_string(L).value,
                       line, column)
        ELSE OperatorOrDelimiter(L, c, line, column)

RECURSIVE Sources(_)
Sources(n) ==
    IF n = 0 THEN {<<>>}
    ELSE Sources(n - 1) \cup {Append(s, c) : s \in Sources(n - 1), c \in SourceChars}

LexerStep(L) ==
    /\ lexer' = L
    /\ UNCHANGED <<evalVars, parseVars, heap, repl>>

\* lexer_init and the reset of lexer_tokenize.
LexerInit ==
    /\ lexer.status = "idle"
    /\ \E source \in Sources(MaxChars), u \in IsalnumHighByte :
          LexerStep([source |-> source, pos |-> 0, line |-> 1, column |-> 1,
                     tokens |-> <<>>,
                     error |-> [code |-> KUNYU_OK, message |-> "", line |-> 0,
                                column |-> 0],
                     high_alnum |-> u, status |-> "reading", result |-> 0])

\* One turn of the loop of lexer_tokenize.
LexerTokenize ==
    /\ lexer.status = "reading"
    /\ LET r == read_next_token(lexer)
       IN  IF ~r.ok
           THEN LexerStep([r.L EXCEPT !.status = "returned", !.result = -1])
           ELSE IF Len(r.L.tokens) > 0
                   /\ r.L.tokens[Len(r.L.tokens)].type = "KUNYU_TOKEN_EOF"
           THEN LexerStep([r.L EXCEPT !.status = "returned",
                                      !.result = Len(r.L.tokens)])
           ELSE LexerStep(r.L)

InitLexer ==
    /\ phase = "idle"
    /\ root = NoNode
    /\ result = FALSE
    /\ stack = <<>>
    /\ ret = NoRet
    /\ current_scope = <<>>
    /\ function_table = <<>>
    /\ builtin_funcs = <<>>
    /\ interpreter = [error |-> NoError, has_return |-> FALSE, return_value |-> NULL]
    /\ output = <<>>
    /\ references = NoReferences
    /\ tokens = <<>>
    /\ parsed = NoParse
    /\ heap = Unused
    /\ lexer = [source |-> <<>>, pos |-> 0, line |-> 1, column |-> 1,
                tokens |-> <<>>,
                error |-> [code |-> KUNYU_OK, message |-> "", line |-> 0,
                           column |-> 0],
                high_alnum |-> FALSE, status |-> "idle", result |-> 0]
    /\ repl = Unused

NextLexer ==
    \/ LexerInit
    \/ LexerTokenize

SpecLexer == InitLexer /\ [][NextLexer]_vars

-----------------------------------------------------------------------------
(* The loop of the REPL (src/unnamed/part_002): repl_start gives each input *)
(* line to execute_and_print, which passes the tree parser_parse returned   *)
(* to interpreter_execute.  repl is the list of the trees executed so far.  *)

MaxInputs == 2

\* The trees of the input lines: `variable x = 1;`, `print x;`,
\* `function f() { return 1; }`, `print f();`, `variable x = 1; print x;`,
\* `return 1;` and `function f() { return 1; } print f();`.
ReplPrograms ==
    {create_program(<<create_var_decl("x", Num("1"), FALSE)>>),
     create_program(<<create_print(Var("x"))>>),
     create_program(<<create_function("f", <<>>,
                                      create_block(<<create_return(Num("1"))>>))>>),
     create_program(<<create_print(create_call("f", <<>>))>>),
     create_program(<<create_var_decl("x", Num("1"), FALSE), create_print(Var("x"))>>),
     create_program(<<create_return(Num("1"))>>),
     create_program(<<create_function("f", <<>>,
                                      create_block(<<create_return(Num("1"))>>)),
                      create_print(create_call("f", <<>>))>>)}

\* execute_and_print from its call of interpreter_execute, up to the call of
\* execute_program in it.
ExecuteAndPrint ==
    /\ phase \in {"idle", "done"}
    /\ Len(repl) < MaxInputs
    /\ \E ast \in ReplPrograms :
          /\ root' = ast
          /\ repl' = Append(repl, ast)
          /\ LET S == interpreter_init(Cur)
             IN  Set([S EXCEPT !.phase = "running",
                               !.stack = <<Frame("execute_program", ast, S)>>])
    /\ UNCHANGED <<result, tokens, parsed, heap, lexer>>

\* builtins_cleanup: every entry of the registry freed.
builtins_cleanup(funcs) == <<>>

\* main, interactive: repl_start has returned (the input ended or was `exit`)
\* and interpreter_cleanup is called.
InterpreterCleanup ==
    /\ phase \in {"idle", "done"}
    /\ phase' = "exited"
    /\ builtin_funcs' = builtins_cleanup(builtin_funcs)
    /\ UNCHANGED <<root, result, stack, ret, current_scope, function_table,
                   interpreter, output, references, tokens, parsed, otherVars>>

InitRepl ==
    /\ phase = "idle"
    /\ root = NoNode
    /\ result = FALSE
    /\ stack = <<>>
    /\ ret = NoRet
    /\ current_scope = <<>>
    /\ function_table = <<>>
    /\ builtin_funcs = <<>>
    /\ interpreter = [error |-> NoError, has_return |-> FALSE, return_value |-> NULL]
    /\ output = <<>>
    /\ references = NoReferences
    /\ tokens = <<>>
    /\ parsed = NoParse
    /\ heap = Unused
    /\ lexer = Unused
    /\ repl = <<>>

NextRepl ==
    \/ ExecuteAndPrint
    \/ InterpreterCleanup
    \/ InterpreterExecuteReturn
    \/ ExecuteProgram
    \/ ExecuteStatement
    \/ ExecPrintStmt
    \/ ExecVarDecl
    \/ ExecFunctionDecl
    \/ ExecuteBlock
    \/ ExecReturnStmt
    \/ EvalExpression
    \/ EvalCallExpr

SpecRepl == InitRepl /\ [][NextRepl]_vars

-----------------------------------------------------------------------------
(* Properties of the parser, stated of SpecParser *)

\* C1: parser_parse returns a program only if no statement parser failed.
\* Whenever parse_statement gives no node for a top-level statement (the
\* statement, or one nested in it, lacks a required token or has a token of
\* the required kind with the wrong text), a non-OK parser error is recorded
\* and parser_parse returns no AST; the statement is never dropped with the
\* parse going on.
C1_FailedStatementAborts ==
    (parsed.done /\ parsed.dropped > 0) =>
        (parsed.ast = NoNode /\ parsed.error.code # KUNYU_OK)

\* C2: for every expression e, the tokens of e followed by a single ';' and
\* the end of the input are accepted as one expression statement that
\* consumes exactly e and that ';'.  e is what parse_expression reads at the
\* start of the tokens.
C2_ExpressionStatementAccepted ==
    (/\ parsed.done
     /\ parse_expression(parser_init(tokens)).node # NoNode
     /\ AtDelimiter(parse_expression(parser_init(tokens)).P, ";")
     /\ check(advance(parse_expression(parser_init(tokens)).P), "KUNYU_TOKEN_EOF"))
    => (/\ parsed.error.code = KUNYU_OK
        /\ parsed.ast = create_program(<<create_expression_stmt(
                            Shape(parse_expression(parser_init(tokens)).node))>>)
        /\ parsed.current = parse_expression(parser_init(tokens)).P.current + 1)

-----------------------------------------------------------------------------
(* Properties of the evaluator, stated of Spec *)

\* The function that is running.
Top == stack[Len(stack)]

\* The running function is fn and this step is its return to its caller.
Returns(fn) ==
    /\ phase = "running"
    /\ stack # <<>>
    /\ Top.fn = fn
    /\ stack' = SubSeq(stack, 1, Len(stack) - 1)

\* The body of a user function is being executed.
InCall ==
    \E k \in 1..Len(stack) :
        stack[k].fn = "eval_call_expr" /\ stack[k].pc = "after_body"

\* Frame k of the scope chain (1 the innermost) binds name.
Holds(k, name) ==
    \E j \in 1..Len(current_scope[k]) : current_scope[k][j].name = name

Bound(name) == \E k \in 1..Len(current_scope) : Holds(k, name)

\* The innermost frame of the chain that binds name, and its binding of it.
Nearest(name) ==
    CHOOSE k \in 1..Len(current_scope) :
        Holds(k, name) /\ \A j \in 1..(k - 1) : ~Holds(j, name)

BindingIn(k, name) ==
    current_scope[k][CHOOSE j \in 1..Len(current_scope[k]) :
                        current_scope[k][j].name = name]

\* eval_assign_expr is about to call set_variable with the value of its
\* right-hand side.
Assigning ==
    /\ phase = "running"
    /\ stack # <<>>
    /\ Top.fn = "eval_assign_expr"
    /\ Top.pc = "after_value"
    /\ ret.v # NULL

\* C3: scope balance.  When a block execution or a call returns, on the
\* normal, the early-return and every error path, the scope chain is as deep
\* as it was when the block or call was entered; when interpreter_execute
\* returns, the chain is the global frame alone.
C3_ScopeBalance ==
    [][/\ \A fn \in {"execute_block", "eval_call_expr"} :
             Returns(fn) => Len(current_scope') = Top.depth
       /\ (phase' = "done") => Len(current_scope') = 1]_vars

\* A run that fails inside the then block of an if, where the block has
\* declared a constant, has returned with the global frame alone.
C3_Witness ==
    /\ phase = "done"
    /\ ~result
    /\ root = create_program(<<create_var_decl("x", Num("2"), FALSE), ShadowIf>>)
    /\ interpreter.error.code = KUNYU_ERROR_RUNTIME
    /\ Len(current_scope) = 1

\* C4: once a return statement has executed inside a user-function body,
\* every step up to the call's own return is the return of an enclosing
\* block, loop or statement to its caller: no statement or expression is
\* started (a loop does not evaluate its condition again), nothing is printed,
\* no error is recorded.
C4_ReturnStopsBody ==
    [][(interpreter.has_return /\ InCall) =>
          (/\ stack' = SubSeq(stack, 1, Len(stack) - 1)
           /\ output' = output
           /\ interpreter'.error = interpreter.error
           /\ ret'.b)]_vars

\* The return flag is set inside a call and the loop that encloses the return
\* statement is the running function.
C4_Witness ==
    /\ interpreter.has_return
    /\ InCall
    /\ stack # <<>>
    /\ Top.fn = "exec_loop_stmt"
    /\ Top.pc = "after_body"

\* C5: when a call of a user function returns to its caller (the body
\* succeeded, failed or returned a value), the return flag is false and the
\* stored return value is empty.
C5_CallClearsReturn ==
    [][(Returns("eval_call_expr") /\ ~builtins_is_builtin(Cur, Top.node.name)) =>
          (~interpreter'.has_return /\ interpreter'.return_value = NULL)]_vars

\* `variable y = g(2);` has run to the end of the program: g returned from
\* inside its own return expression twice, and each caller went on.
C5_Witness ==
    /\ phase = "done"
    /\ result
    /\ ~interpreter.has_return
    /\ Len(current_scope) = 1
    /\ Holds(1, "y")
    /\ BindingIn(1, "y").value = py_number_new(2, 1)

\* C6: a call of a user function with the declared number of arguments whose
\* body finishes without a return statement completes successfully: the
\* expression statement, print statement or declaration whose expression is
\* the call does not fail because of it.
C6_VoidCallSucceeds ==
    [][(/\ phase = "running"
        /\ stack # <<>>
        /\ Top.fn \in {"exec_expression_stmt", "exec_print_stmt", "exec_var_decl"}
        /\ Top.pc = "after_value"
        /\ ret.void) => ret'.b]_vars

\* C7: whenever interpreter_execute returns failure, the error slot holds a
\* non-OK code and a message.
C7_FailureHasError ==
    (phase = "done" /\ ~result) =>
        (interpreter.error.code # KUNYU_OK /\ interpreter.error.message # "")

\* C8: on two numbers, `a && b` and `a || b` yield 1 when both, respectively
\* at least one, of the operands is truthy and 0 otherwise, and record no
\* error.
C8_LogicalOperators ==
    [][(/\ phase = "running"
        /\ stack # <<>>
        /\ Top.fn = "eval_binary_expr"
        /\ Top.pc = "after_right"
        /\ Top.node.op \in {"OP_AND", "OP_OR"}
        /\ Top.left.type = "TYPE_NUMBER"
        /\ ret.v.type = "TYPE_NUMBER") =>
          (/\ ret'.v = Bool01(IF Top.node.op = "OP_AND"
                              THEN is_truthy(Top.left) /\ is_truthy(ret.v)
                              ELSE is_truthy(Top.left) \/ is_truthy(ret.v))
           /\ interpreter'.error = interpreter.error)]_vars

\* C9: an assignment `x = e`, e evaluated, fails with a runtime error when no
\* frame of the chain binds x or when the nearest frame that binds x marks it
\* constant, whatever the outer frames hold; the chain is then left as it is:
\* every binding keeps its value and flag and none is created.
C9_RejectedAssignment ==
    [][(/\ Assigning
        /\ \/ ~Bound(Top.node.name)
           \/ BindingIn(Nearest(Top.node.name), Top.node.name).is_constant) =>
          (/\ Returns("eval_assign_expr")
           /\ ret'.v = NULL
           /\ interpreter'.error.code = KUNYU_ERROR_RUNTIME
           /\ current_scope' = current_scope)]_vars

\* The assignment to the constant x of the then block of ShadowIf has just
\* failed: the block's constant and the global variable x, which the block
\* shadows, hold what they held.
C9_Witness ==
    /\ phase = "running"
    /\ interpreter.error.message = "cannot modify constant: x"
    /\ Len(current_scope) = 2
    /\ Holds(1, "x") /\ BindingIn(1, "x").is_constant
    /\ BindingIn(1, "x").value = py_number_new(3, 1)
    /\ Holds(2, "x") /\ ~BindingIn(2, "x").is_constant
    /\ BindingIn(2, "x").value = py_number_new(2, 1)

\* C10: a successful assignment `x = e`, e evaluated, changes the value of x
\* in the innermost frame that binds x and nothing else: every frame keeps its
\* bindings, their names and flags, the other bindings keep their values, and
\* the value of the assignment is the value assigned.
C10_AcceptedAssignment ==
    [][(/\ Assigning
        /\ Bound(Top.node.name)
        /\ ~BindingIn(Nearest(Top.node.name), Top.node.name).is_constant) =>
          (/\ Returns("eval_assign_expr")
           /\ ret'.v = ret.v
           /\ Len(current_scope') = Len(current_scope)
           /\ \A k \in 1..Len(current_scope) :
                 /\ Len(current_scope'[k]) = Len(current_scope[k])
                 /\ \A j \in 1..Len(current_scope[k]) :
                       /\ current_scope'[k][j].name = current_scope[k][j].name
                       /\ current_scope'[k][j].is_constant
                              = current_scope[k][j].is_constant
                       /\ current_scope'[k][j].value =
                              IF k = Nearest(Top.node.name)
                                 /\ current_scope[k][j].name = Top.node.name
                              THEN ret.v
                              ELSE current_scope[k][j].value)]_vars

\* The assignment `x = 6` of the else block of ShadowIf has been made: the
\* block's x is 6 and the global x, which the block shadows, is still 0.
C10_Witness ==
    /\ phase = "running"
    /\ Len(current_scope) = 2
    /\ Holds(1, "x") /\ BindingIn(1, "x").value = py_number_new(6, 1)
    /\ Holds(2, "x") /\ BindingIn(2, "x").value = py_number_new(0, 1)

\* exec_var_decl is about to call define_variable with the value of the
\* initializer.
Declaring ==
    /\ phase = "running"
    /\ stack # <<>>
    /\ Top.fn = "exec_var_decl"
    /\ Top.pc = "after_value"
    /\ ret.v # NULL

\* C11 as stated: a declaration of x fails if and only if x is bound in the
\* innermost frame.
C11_FailsIffBoundInnermost ==
    [][Returns("exec_var_decl") => (~ret'.b <=> Holds(1, Top.node.name))]_vars

\* C11: a declaration of x first evaluates its initializer, leaving the chain
\* as it is.  Once the initializer has a value the declaration fails, with a
\* runtime error and the chain unchanged, if and only if the innermost frame
\* binds x; otherwise it succeeds and puts one binding of x, with that value
\* and the declared flag, in the innermost frame, every other binding of every
\* frame (those of x in enclosing frames included) staying as it is.
C11_DeclarationBindsInnermost ==
    [][/\ (/\ phase = "running" /\ stack # <<>>
           /\ Top.fn = "exec_var_decl" /\ Top.pc = "start") =>
              (/\ Len(stack') = Len(stack) + 1
               /\ stack'[Len(stack')].fn = "eval_expression"
               /\ stack'[Len(stack')].node = Top.node.kids[1]
               /\ current_scope' = current_scope)
       /\ (Declaring /\ Holds(1, Top.node.name)) =>
              (/\ Returns("exec_var_decl")
               /\ ~ret'.b
               /\ interpreter'.error.code = KUNYU_ERROR_RUNTIME
               /\ current_scope' = current_scope)
       /\ (Declaring /\ ~Holds(1, Top.node.name)) =>
              (/\ Returns("exec_var_decl")
               /\ ret'.b
               /\ interpreter'.error = interpreter.error
               /\ Len(current_scope') = Len(current_scope)
               /\ Len(current_scope'[1]) = Len(current_scope[1]) + 1
               /\ \E j \in 1..Len(current_scope'[1]) :
                     /\ current_scope'[1][j] =
                            [name |-> Top.node.name,
                             is_constant |-> Top.node.is_constant, value |-> ret.v]
                     /\ \A i \in 1..Len(current_scope[1]) :
                           current_scope[1][i] =
                               current_scope'[1][IF i < j THEN i ELSE i + 1]
               /\ \A k \in 2..Len(current_scope) :
                     current_scope'[k] = current_scope[k])]_vars

\* `constant x = 3` of the then block of ShadowIf has been declared: the
\* block's frame binds x to 3 and the global x, which it hides, is still 2.
C11_Witness ==
    /\ phase = "running"
    /\ interpreter.error.code = KUNYU_OK
    /\ stack # <<>>
    /\ Top.fn = "execute_block"
    /\ Top.i = 1
    /\ ret.b
    /\ Len(current_scope) = 2
    /\ Holds(1, "x") /\ BindingIn(1, "x").is_constant
    /\ BindingIn(1, "x").value = py_number_new(3, 1)
    /\ Holds(2, "x") /\ ~BindingIn(2, "x").is_constant
    /\ BindingIn(2, "x").value = py_number_new(2, 1)

\* eval_expression is about to read the variable its identifier node names.
Reading ==
    /\ phase = "running"
    /\ stack # <<>>
    /\ Top.fn = "eval_expression"
    /\ Top.node.type = "NODE_IDENTIFIER"

\* C12: when a block ends, on any path, its frame leaves the chain with every
\* binding declared in it and the enclosing frames are what remains, unchanged.
\* A read of a name yields the value of the nearest frame of the chain that
\* binds it and fails with an undefined-variable runtime error when none does;
\* an assignment fails the same way when none does and otherwise changes no
\* frame but the nearest one that binds the name.
C12_BlockLocalsUnreachable ==
    [][/\ Returns("execute_block") =>
              current_scope' = IF Top.pc = "start" THEN current_scope
                               ELSE Tail(current_scope)
       /\ Reading =>
              (/\ Returns("eval_expression")
               /\ current_scope' = current_scope
               /\ IF Bound(Top.node.name)
                  THEN /\ ret'.v = BindingIn(Nearest(Top.node.name), Top.node.name).value
                       /\ interpreter'.error = interpreter.error
                  ELSE /\ ret'.v = NULL
                       /\ interpreter'.error.code = KUNYU_ERROR_RUNTIME
                       /\ interpreter'.error.message
                              = "undefined variable: " \o Top.node.name)
       /\ Assigning =>
              IF Bound(Top.node.name)
              THEN \A k \in 1..Len(current_scope) :
                      k # Nearest(Top.node.name) => current_scope'[k] = current_scope[k]
              ELSE /\ ret'.v = NULL
                   /\ current_scope' = current_scope
                   /\ interpreter'.error.code = KUNYU_ERROR_RUNTIME
                   /\ interpreter'.error.message
                          = "undefined variable: " \o Top.node.name]_vars

\* `if (x) { variable t = 3; print r(); }  print t;` has run with no global
\* t: the block printed 3 through r, and the read of t after the block failed.
C12_Witness ==
    /\ phase = "done"
    /\ ~result
    /\ Len(root.kids) = 5
    /\ root.kids[4] = LocalThenCall
    /\ root.kids[5] = create_print(Var("t"))
    /\ output = <<"3">>
    /\ interpreter.error.message = "undefined variable: t"
    /\ Len(current_scope) = 1
    /\ ~Holds(1, "t")

\* exec_loop_stmt is the running function, at pc.
Looping(pc) ==
    /\ phase = "running"
    /\ stack # <<>>
    /\ Top.fn = "exec_loop_stmt"
    /\ Top.pc = pc

\* This step is the running function's call of fn on node, to resume at pc.
Calls(fn, node, pc) ==
    /\ Len(stack') = Len(stack) + 1
    /\ stack'[Len(stack)].pc = pc
    /\ stack'[Len(stack')].fn = fn
    /\ stack'[Len(stack')].node = node
    /\ stack'[Len(stack')].pc = "start"

\* C13: a loop starts by evaluating its condition.  After each evaluation it
\* executes the body when the value is truthy and ends successfully when it is
\* falsy; after each execution of the body it ends successfully, the condition
\* not evaluated again, when a return has executed, and otherwise evaluates
\* the condition once more.  The body is started by no other step of the loop
\* than the one that follows a truthy evaluation.
C13_LoopProtocol ==
    [][/\ Looping("start") =>
              Calls("eval_expression", Top.node.kids[1], "after_condition")
       /\ (Looping("after_condition") /\ ret.v # NULL) =>
              IF is_truthy(ret.v)
              THEN Calls("execute_statement", Top.node.kids[2], "after_body")
              ELSE Returns("exec_loop_stmt") /\ ret'.b
       /\ (Looping("after_body") /\ ret.b) =>
              IF interpreter.has_return
              THEN /\ Returns("exec_loop_stmt") /\ ret'.b
                   /\ interpreter'.has_return
                   /\ interpreter'.return_value = interpreter.return_value
              ELSE Calls("eval_expression", Top.node.kids[1], "after_condition")
       /\ (/\ phase = "running" /\ stack # <<>> /\ Top.fn = "exec_loop_stmt"
           /\ Len(stack') = Len(stack) + 1
           /\ stack'[Len(stack')].fn = "execute_statement") =>
              (Top.pc = "after_condition" /\ ret.v # NULL /\ is_truthy(ret.v))
       /\ (phase = "running" /\ stack # <<>> /\ Top.fn = "exec_loop_stmt") =>
              (/\ current_scope' = current_scope
               /\ output' = output
               /\ interpreter' = interpreter)]_vars

\* `variable x = 2;  loop (x) { variable t = x; x = x - 1;; }`: the condition
\* has just been evaluated for the third time, x is 0, and the loop is about
\* to end.
C13_Witness ==
    /\ Looping("after_condition")
    /\ root = create_program(<<create_var_decl("x", Num("2"), FALSE), CountDown>>)
    /\ ret.v = py_number_new(0, 1)
    /\ Len(current_scope) = 1
    /\ BindingIn(1, "x").value = py_number_new(0, 1)

\* eval_call_expr has just been entered for a call of a name that is no
\* builtin.
CallingUser ==
    /\ phase = "running"
    /\ stack # <<>>
    /\ Top.fn = "eval_call_expr"
    /\ Top.pc = "start"
    /\ find_builtin(builtin_funcs, Top.node.name) = 0

\* The entry of the function table for name (the first of that name).
Declared(name) == \E k \in 1..Len(function_table) : function_table[k].name = name

EntryOf(name) ==
    function_table[CHOOSE k \in 1..Len(function_table) :
                      /\ function_table[k].name = name
                      /\ \A j \in 1..(k - 1) : function_table[j].name # name]

\* C14: a call of a declared user function with a number of arguments other
\* than its parameter count returns failure in its first step, with a runtime
\* error naming the function and both counts: no argument is evaluated, no
\* scope is pushed, and the scope chain with its bindings, the return flag,
\* the stored return value, the function table and the output are as before.
C14_ArityMismatch ==
    [][(/\ CallingUser
        /\ Declared(Top.node.name)
        /\ Len(Top.node.kids) # EntryOf(Top.node.name).param_count) =>
          (/\ Returns("eval_call_expr")
           /\ ret'.v = NULL
           /\ interpreter'.error.code = KUNYU_ERROR_RUNTIME
           /\ interpreter'.error.message =
                  "wrong argument count: " \o Top.node.name \o " needs "
                  \o ToString(EntryOf(Top.node.name).param_count)
                  \o ", got " \o ToString(Len(Top.node.kids))
           /\ current_scope' = current_scope
           /\ interpreter'.has_return = interpreter.has_return
           /\ interpreter'.return_value = interpreter.return_value
           /\ function_table' = function_table
           /\ output' = output)]_vars

\* `print r(x = 0);` has failed on its argument count: the argument, an
\* assignment to x, was not evaluated and x is still 2.
C14_Witness ==
    /\ phase = "done"
    /\ ~result
    /\ interpreter.error.message = "wrong argument count: r needs 0, got 1"
    /\ Len(current_scope) = 1
    /\ Holds(1, "x")
    /\ BindingIn(1, "x").value = py_number_new(2, 1)
    /\ output = <<>>

\* exec_function_decl is about to declare the function of its node.
DeclaringFunction ==
    /\ phase = "running"
    /\ stack # <<>>
    /\ Top.fn = "exec_function_decl"

\* C15: a function declaration whose name the function table already holds
\* fails with a runtime error and leaves the table as it is, wherever the
\* declaration stands and however it came to be executed again (a loop body's
\* second iteration, a function called twice); a declaration of a new name
\* succeeds and adds its one entry.
C15_RedeclarationFails ==
    [][DeclaringFunction =>
          IF Declared(Top.node.name)
          THEN /\ Returns("exec_function_decl")
               /\ ~ret'.b
               /\ interpreter'.error.code = KUNYU_ERROR_RUNTIME
               /\ interpreter'.error.message
                      = "function already defined: " \o Top.node.name
               /\ function_table' = function_table
          ELSE /\ Returns("exec_function_decl")
               /\ ret'.b
               /\ interpreter'.error = interpreter.error
               /\ function_table' =
                      <<[name |-> Top.node.name, params |-> Top.node.params,
                         param_count |-> Len(Top.node.params),
                         body |-> Top.node.kids[1]]>> \o function_table]_vars

\* `loop (x) { function h() { return 1; } x = x - 1;; }` with x = 2 has
\* failed in its second iteration: x is 1 and the table holds the h of the
\* first iteration alone.
C15_Witness ==
    /\ phase = "done"
    /\ ~result
    /\ Len(root.kids) = 4
    /\ root.kids[4] = DeclareInLoop
    /\ interpreter.error.message = "function already defined: h"
    /\ BindingIn(1, "x").value = py_number_new(1, 1)
    /\ Len(function_table) = 3
    /\ function_table[1].name = "h"

\* The tree under node holds a declaration of function name.
RECURSIVE DeclaresFunction(_, _)
DeclaresFunction(node, name) ==
    \/ node.type = "NODE_FUNCDECL" /\ node.name = name
    \/ \E k \in 1..Len(node.kids) : DeclaresFunction(node.kids[k], name)

\* This step is the failure of a call for want of a function of that name.
FailsUndefined ==
    /\ Returns("eval_call_expr")
    /\ ret'.v = NULL
    /\ interpreter'.error.code = KUNYU_ERROR_RUNTIME
    /\ interpreter'.error.message = "undefined function: " \o Top.node.name

C17_DynamicScope ==
    [][/\ (/\ CallingUser
           /\ Declared(Top.node.name)
           /\ Len(Top.node.kids) = EntryOf(Top.node.name).param_count) =>
              current_scope' = <<<<>>>> \o current_scope
       /\ (/\ phase = "running" /\ stack # <<>>
           /\ Top.fn = "eval_call_expr" /\ Top.pc = "bind_argument") =>
              \/ Returns("eval_call_expr") /\ current_scope' = Tail(current_scope)
              \/ /\ Tail(current_scope') = Tail(current_scope)
                 /\ Len(current_scope'[1]) = Len(current_scope[1]) + 1
       /\ (InCall /\ Reading) =>
              IF Bound(Top.node.name)
              THEN ret'.v = BindingIn(Nearest(Top.node.name), Top.node.name).value
              ELSE /\ ret'.v = NULL
                   /\ interpreter'.error.message
                          = "undefined variable: " \o Top.node.name]_vars

\* `if (x) { variable t = 3; print r(); }` has run with no global t: r,
\* declared at the top level as `return t`, read the t of the block that
\* called it and 3 is printed.
C17_Witness ==
    /\ phase = "done"
    /\ result
    /\ Len(root.kids) = 4
    /\ root.kids[4] = LocalThenCall
    /\ output = <<"3">>
    /\ Len(current_scope) = 1
    /\ ~Holds(1, "t")

\* No call of a builtin name is binding parameters or executing a body.
NoUserBodyForBuiltin ==
    \A k \in 1..Len(stack) :
        (/\ stack[k].fn = "eval_call_expr"
         /\ find_builtin(builtin_funcs, stack[k].node.name) # 0) =>
            stack[k].pc \in {"start", "builtin_argument"}

\* C18: a call of a name of the builtin registry takes the builtin branch
\* whatever the function table holds: its first step evaluates the first
\* argument or, with no argument, returns what builtins_call yields, and
\* pushes no scope; no such call ever binds parameters or executes a body, so
\* the body of a user function declared under a builtin's name (the
\* declaration itself succeeds) is never executed and prints nothing.
C18_BuiltinFirst ==
    [][/\ (/\ phase = "running" /\ stack # <<>>
           /\ Top.fn = "eval_call_expr" /\ Top.pc = "start"
           /\ find_builtin(builtin_funcs, Top.node.name) # 0) =>
              (/\ current_scope' = current_scope
               /\ function_table' = function_table
               /\ IF Len(Top.node.kids) > 0
                  THEN Calls("eval_expression", Top.node.kids[1], "builtin_argument")
                  ELSE /\ Returns("eval_call_expr")
                       /\ ret'.v = builtins_call(Cur, Top.node.name, <<>>))
       /\ NoUserBodyForBuiltin'
       /\ \A k \in 1..Len(output') : output'[k] # "user"]_vars

\* `print list_length(create_list());` has printed 0 although the prelude
\* declared a user function create_list, which the function table holds.
C18_Witness ==
    /\ phase = "done"
    /\ result
    /\ Declared("create_list")
    /\ Len(root.kids) = 6
    /\ root.kids[6] =
           create_print(create_call("list_length", <<create_call("create_list", <<>>)>>))
    /\ output = <<"0">>

-----------------------------------------------------------------------------
(* Properties of the whole run, stated of SpecMain *)

\* The left-nested tree of a chain, read off the token array: PrimaryAt is
\* the primary that starts at token k (a number, or a parenthesised chain) and
\* LeftNest folds the operators and primaries from token k on into acc, each
\* operator taking all that precedes it as its left operand.  Both give the
\* tree and the position after it.
RECURSIVE PrimaryAt(_, _), LeftNest(_, _, _)
PrimaryAt(toks, k) ==
    IF toks[k].type = "KUNYU_TOKEN_DELIMITER" /\ toks[k].value = "("
    THEN Bind(PrimaryAt(toks, k + 1), LAMBDA first :
             Bind(LeftNest(toks, first.next, first.tree), LAMBDA inner :
                 [tree |-> create_grouping(inner.tree), next |-> inner.next + 1]))
    ELSE [tree |-> create_literal(toks[k].type, toks[k].value), next |-> k + 1]

LeftNest(toks, k, acc) ==
    IF toks[k].type = "KUNYU_TOKEN_OPERATOR"
    THEN Bind(PrimaryAt(toks, k + 1), LAMBDA p :
             LeftNest(toks, p.next,
                      create_binary(acc, BinaryOpOf(toks[k].value), p.tree)))
    ELSE [tree |-> acc, next |-> k]

\* The source is `print a + b * c ;` for three numerals a, b and c.
SumTimes ==
    /\ Len(tokens) = 8
    /\ \A k \in {2, 4, 6} : tokens[k].type = "KUNYU_TOKEN_NUMBER"
    /\ tokens[3].type = "KUNYU_TOKEN_OPERATOR" /\ tokens[3].value = "+"
    /\ tokens[5].type = "KUNYU_TOKEN_OPERATOR" /\ tokens[5].value = "*"

\* C19: the parser builds of every chain p0 op1 p1 ... opn pn the left-nested
\* tree, whichever operators occur: the tree of `print <chain> ;` is a program
\* of one print statement of that tree, with no parser error.  So
\* `a + b * c` is (a + b) * c, and its run prints the value of (a + b) * c:
\* 20 for 2 + 3 * 4.
C19_LeftNested ==
    /\ parsed.done =>
          /\ parsed.error.code = KUNYU_OK
          /\ parsed.ast = create_program(<<create_print(
                 LeftNest(tokens, PrimaryAt(tokens, 2).next,
                          PrimaryAt(tokens, 2).tree).tree)>>)
    /\ (parsed.done /\ SumTimes) =>
          /\ parsed.ast = create_program(<<create_print(
                 create_binary(create_binary(Num(tokens[2].value), "OP_ADD",
                                             Num(tokens[4].value)),
                               "OP_MUL", Num(tokens[6].value)))>>)
          /\ phase = "done" =>
                /\ result
                /\ output = <<ToString((atof(tokens[2].value).num
                                         + atof(tokens[4].value).num)
                                        * atof(tokens[6].value).num)>>
                /\ (/\ tokens[2].value = "2" /\ tokens[4].value = "3"
                    /\ tokens[6].value = "4") => output = <<"20">>

\* `print 2 + 3 * 4 ;` has run and printed 20.
C19_Witness ==
    /\ SumTimes
    /\ tokens[2].value = "2" /\ tokens[4].value = "3" /\ tokens[6].value = "4"
    /\ phase = "done"
    /\ result
    /\ output = <<"20">>

\* eval_binary_expr has both operands of a division or remainder, two numbers.
Dividing ==
    /\ phase = "running"
    /\ stack # <<>>
    /\ Top.fn = "eval_binary_expr"
    /\ Top.pc = "after_right"
    /\ Top.node.op \in {"OP_DIV", "OP_MOD"}
    /\ Top.left.type = "TYPE_NUMBER"
    /\ ret.v # NULL
    /\ ret.v.type = "TYPE_NUMBER"

\* C20: `a / b` and `a % b` on numbers a and b fail with a runtime error and
\* no value when b is 0; for every other b, fractions between -1 and 1
\* included, they yield a number and record no error: `a / b` the quotient (q
\* with q * b = a) and `a % b` the remainder of trunc(a) by trunc(b), whose
\* sign is that of trunc(a).
C20_DivisionAndRemainder ==
    [][Dividing =>
          IF ret.v.num = 0
          THEN /\ Returns("eval_binary_expr")
               /\ ret'.v = NULL
               /\ interpreter'.error.code = KUNYU_ERROR_RUNTIME
          ELSE /\ phase' = "running"
               /\ Returns("eval_binary_expr")
               /\ interpreter'.error = interpreter.error
               /\ ret'.v.type = "TYPE_NUMBER"
               /\ Top.node.op = "OP_DIV" =>
                     ret'.v.num * ret.v.num * Top.left.den
                         = Top.left.num * ret.v.den * ret'.v.den
               /\ (Top.node.op = "OP_MOD" /\ IntCast(ret.v) # 0) =>
                     ret'.v = py_number_new(CRem(IntCast(Top.left), IntCast(ret.v)), 1)]_vars

-----------------------------------------------------------------------------
(* Properties of the object system, stated of SpecObjects *)

LastCall == heap'.last

\* What object o holds, slot by slot: the items of a list, the keys and values
\* of a dictionary.
Slots(O, o) == O[o].items \o O[o].pairs

\* Number of slots of the sequence that hold obj.
Occurrences(slots, obj) == Cardinality({k \in DOMAIN slots : slots[k] = obj})

\* The objects this step frees.
FreedNow == {f \in 1..Len(heap.objs) : heap'.objs[f].freed /\ ~heap.objs[f].freed}

\* Number of slots of the objects freed in this step that held obj.
Released(obj) ==
    Cardinality({s \in FreedNow \X (1..(2 * MaxItems)) :
                    /\ s[2] <= Len(Slots(heap.objs, s[1]))
                    /\ Slots(heap.objs, s[1])[s[2]] = obj})

\* The step is a holder operation that succeeded.
HolderStep ==
    /\ heap' # heap
    /\ LastCall.ok
    /\ LastCall.op \in {"py_list_append", "py_list_set", "py_dict_set",
                        "define_variable", "set_variable"}

\* The values the holder operation of this step puts in a slot, one entry for
\* each slot.
Taken ==
    LET a == LastCall.args
    IN  CASE LastCall.op = "py_list_append" -> <<a[2]>>
          [] LastCall.op = "py_list_set" -> <<a[3]>>
          [] LastCall.op = "py_dict_set" ->
                IF Len(heap'.objs[a[1]].pairs) = Len(heap.objs[a[1]].pairs)
                THEN <<a[3]>> ELSE <<a[2], a[3]>>
          [] OTHER -> <<a[2]>>

\* The value that was in the slot the holder operation of this step
\* overwrites, 0 when it fills a new slot.
PreviousOccupant ==
    LET a == LastCall.args
    IN  CASE LastCall.op = "py_list_set" -> heap.objs[a[1]].items[a[2] + 1]
          [] LastCall.op = "py_dict_set" ->
                IF Len(heap'.objs[a[1]].pairs) = Len(heap.objs[a[1]].pairs)
                THEN heap.objs[a[1]].pairs[2 * py_dict_find_index(heap.objs, a[1], a[2]) + 2]
                ELSE 0
          [] LastCall.op = "set_variable" -> heap.variables[VariableNamed(a[1])].value
          [] OTHER -> 0

Holders(obj) ==
    Cardinality({s \in (1..Len(heap.objs)) \X (1..(2 * MaxItems)) :
                    /\ ~heap.objs[s[1]].freed
                    /\ s[2] <= Len(Slots(heap.objs, s[1]))
                    /\ Slots(heap.objs, s[1])[s[2]] = obj})
    + Cardinality({k \in 1..Len(heap.variables) : heap.variables[k].value = obj})

\* C22: an object is destroyed exactly when its count reaches zero, and once:
\* an object that is not freed has a count of at least one, which is the
\* number of references the calling code owns plus one for each slot of a
\* live container and each variable that holds it, so that a stored value
\* lives while its container lives and destroying a container takes
\* exactly one from an element for each slot; a freed object has count zero,
\* was freed once and no live container, variable or caller refers to it.
C22_DestroyedAtZeroOnce ==
    \A o \in 1..Len(heap.objs) :
        /\ heap.objs[o].freed <=> heap.objs[o].ref_count = 0
        /\ heap.objs[o].frees = (IF heap.objs[o].freed THEN 1 ELSE 0)
        /\ heap.objs[o].ref_count = heap.held[o] + Holders(o)

\* The calling code gave up a list that held one value in two slots and was
\* the last holder of it: the list and the value are destroyed.
C22_Witness ==
    /\ heap.last.op = "py_decref"
    /\ \E list \in 1..Len(heap.objs), o \in 1..Len(heap.objs) :
          /\ list = heap.last.args[1]
          /\ heap.objs[list].freed
          /\ heap.objs[list].items = <<o, o>>
          /\ heap.objs[o].freed

\* The calling code gave up its reference to a value a live list holds: the
\* value is alive.
C22_WitnessStored ==
    /\ heap.last.op = "py_decref"
    /\ \E list \in 1..Len(heap.objs) :
          /\ ~heap.objs[list].freed
          /\ heap.objs[list].items = <<heap.last.args[1]>>
          /\ heap.held[heap.last.args[1]] = 0
          /\ ~heap.objs[heap.last.args[1]].freed

\* The objects are as they were but for the count of obj, which is n more.
OnlyCounted(obj, n) ==
    /\ Len(heap'.objs) = Len(heap.objs)
    /\ \A o \in 1..Len(heap.objs) :
          heap'.objs[o] = IF o = obj THEN [heap.objs[o] EXCEPT !.ref_count = @ + n]
                          ELSE heap.objs[o]

\* The first argument of the call of this step is a list and the second an
\* index below its length.
IndexInList ==
    /\ heap.objs[LastCall.args[1]].type = "TYPE_LIST"
    /\ LastCall.args[2] < Len(heap.objs[LastCall.args[1]].items)

\* Item i of the dictionary has a string key equal to the string obj.
StringKeyAt(dict, i, obj) ==
    /\ 2 * i + 2 <= Len(heap.objs[dict].pairs)
    /\ heap.objs[obj].type = "TYPE_STRING"
    /\ heap.objs[heap.objs[dict].pairs[2 * i + 1]].type = "TYPE_STRING"
    /\ heap.objs[heap.objs[dict].pairs[2 * i + 1]].str = heap.objs[obj].str

\* The first argument of the call of this step is a dictionary that has a
\* string key equal to the second, a string.
KeyInDict ==
    /\ heap.objs[LastCall.args[1]].type = "TYPE_DICT"
    /\ \E i \in 0..(MaxItems - 1) : StringKeyAt(LastCall.args[1], i, LastCall.args[2])

\* C23: py_list_get and py_dict_get that succeed return a value of the
\* container, the item at the index or the value of the key, with exactly one
\* more reference, and change nothing else; they fail when the container is
\* of another type, the index is not below the length or no key of the
\* dictionary is a string equal to the string key, and then return no value
\* and change no object; a py_list_set with an index not below the length
\* fails and one that fails changes no object; a constructor returns a new
\* object of count 1 and changes no other.
C23_GettersAndConstructors ==
    [][heap' # heap =>
         /\ LastCall.op = "py_list_get" =>
               /\ LastCall.ok <=> IndexInList
               /\ LastCall.ok =>
                     /\ LastCall.out
                          = heap.objs[LastCall.args[1]].items[LastCall.args[2] + 1]
                     /\ OnlyCounted(LastCall.out, 1)
         /\ LastCall.op = "py_dict_get" =>
               /\ LastCall.ok <=> KeyInDict
               /\ LastCall.ok =>
                     /\ \E i \in 0..(MaxItems - 1) :
                           /\ StringKeyAt(LastCall.args[1], i, LastCall.args[2])
                           /\ LastCall.out = heap.objs[LastCall.args[1]].pairs[2 * i + 2]
                     /\ OnlyCounted(LastCall.out, 1)
         /\ LastCall.op = "py_list_set" => (LastCall.ok <=> IndexInList)
         /\ LastCall.op \in {"py_list_get", "py_dict_get", "py_list_set"}
               /\ ~LastCall.ok =>
               /\ LastCall.out = 0
               /\ heap'.objs = heap.objs
         /\ LastCall.op = "new" =>
               /\ LastCall.out = Len(heap.objs) + 1
               /\ Len(heap'.objs) = Len(heap.objs) + 1
               /\ heap'.objs[LastCall.out].ref_count = 1
               /\ \A o \in 1..Len(heap.objs) : heap'.objs[o] = heap.objs[o]]_vars

\* py_list_get returned an item the calling code had given up its reference
\* to: the list and the calling code hold it.
C23_Witness ==
    /\ heap.last.op = "py_list_get"
    /\ heap.last.ok
    /\ heap.objs[heap.last.out].ref_count = 2
    /\ heap.held[heap.last.out] = 1

\* py_list_get failed on a list for the index that is its length.
C23_WitnessFailure ==
    /\ heap.last.op = "py_list_get"
    /\ ~heap.last.ok
    /\ heap.objs[heap.last.args[1]].type = "TYPE_LIST"
    /\ heap.last.args[2] = Len(heap.objs[heap.last.args[1]].items)
    /\ heap.last.args[2] > 0

\* C24: the keys of a dictionary match by string equality and in no other
\* way: py_dict_get with a key that is no string misses, py_dict_set on a
\* dictionary succeeds, appends an item when the key is no string or no key of
\* the dictionary is a string equal to it, and keeps the size when a key of
\* the dictionary is a string equal to it.
C24_KeysByStringEquality ==
    [][heap' # heap =>
         /\ LastCall.op = "py_dict_get"
               /\ heap.objs[LastCall.args[2]].type # "TYPE_STRING" =>
               /\ ~LastCall.ok
               /\ LastCall.out = 0
         /\ LastCall.op = "py_dict_set"
               /\ heap.objs[LastCall.args[1]].type = "TYPE_DICT" =>
               /\ LastCall.ok
               /\ Len(heap'.objs[LastCall.args[1]].pairs) =
                     IF heap.objs[LastCall.args[2]].type # "TYPE_STRING" THEN
                         Len(heap.objs[LastCall.args[1]].pairs) + 2
                     ELSE IF KeyInDict THEN Len(heap.objs[LastCall.args[1]].pairs)
                     ELSE Len(heap.objs[LastCall.args[1]].pairs) + 2]_vars

\* A dictionary holds one number object as the key of two items, and
\* py_dict_get with that object missed.
C24_Witness ==
    /\ heap.last.op = "py_dict_get"
    /\ ~heap.last.ok
    /\ heap.objs[heap.last.args[2]].type = "TYPE_NUMBER"
    /\ Len(heap.objs[heap.last.args[1]].pairs) = 4
    /\ heap.objs[heap.last.args[1]].pairs[1] = heap.last.args[2]
    /\ heap.objs[heap.last.args[1]].pairs[3] = heap.last.args[2]

\* py_dict_set with a string equal to a key of the dictionary, another
\* object than the key, replaced the value.
C24_WitnessReplaced ==
    /\ heap.last.op = "py_dict_set"
    /\ heap.last.ok
    /\ Len(heap.objs[heap.last.args[1]].pairs) = 2
    /\ heap.objs[heap.last.args[1]].pairs[1] # heap.last.args[2]
    /\ heap.objs[heap.last.args[1]].pairs[2] = heap.last.args[3]

\* C25: once a function of the evaluator has returned failure (a statement
\* false, an expression NULL) to the function that called it, every step is
\* the return of failure by the function returned to: no statement is started, nothing is printed, every
\* enclosing block and loop and the statement list of the program end, and
\* interpreter_execute returns false.
C25_FailFast ==
    [][(phase = "running" /\ ~ret.b /\ (stack = <<>> \/ Top.pc # "start")) =>
         IF stack = <<>> THEN phase' = "done" /\ ~result'
         ELSE /\ Len(stack') = Len(stack) - 1
              /\ ~ret'.b
              /\ output' = output]_vars

\* The first of two statements of a program has failed, inside a block or a
\* call, and the statement list of the program is about to go on.
C25_Witness ==
    /\ phase = "running"
    /\ Len(stack) = 1
    /\ Top.fn = "execute_program"
    /\ Top.i = 1
    /\ Top.pc # "start"
    /\ Len(root.kids) = 2
    /\ ~ret.b
    /\ root.kids[1].type \in {"NODE_BLOCK", "NODE_IF", "NODE_LOOP"}

-----------------------------------------------------------------------------
(* Properties of the lexer, stated of SpecLexer *)

\* Where the byte at 1-based position p of the source lies: "code", "comment"
\* (from a '#' to the byte before the line feed that ends the line) or
\* "string" (from a '"' to the '"' that closes it, a backslash taking the
\* byte after it along).  before is where the byte at p - 1 lies, "opened"
\* for the '"' that opens a string, "closed" for the one that closes it and
\* "escape" for a backslash in a string.
RECURSIVE Lies(_, _)
Lies(source, p) ==
    LET before == IF p = 1 THEN "code" ELSE Lies(source, p - 1)
        c == source[p]
    IN  IF before \in {"code", "closed"}
        THEN IF c = "#" THEN "comment" ELSE IF c = "\"" THEN "opened" ELSE "code"
        ELSE IF before = "comment" THEN IF c = "\n" THEN "code" ELSE "comment"
        ELSE IF before = "escape" THEN "string"
        ELSE IF c = "\"" THEN "closed" ELSE IF c = "\\" THEN "escape" ELSE "string"

\* The positions of the line feeds of the source outside strings and comments.
LineFeedsOutside(source) ==
    {p \in 1..Len(source) : source[p] = "\n" /\ Lies(source, p) = "code"}

TokensOfType(type) ==
    {k \in 1..Len(lexer.tokens) : lexer.tokens[k].type = type}

\* C26: when lexer_tokenize succeeds, the tokens hold exactly one EOF token,
\* the last one, one newline token for each line feed of the source outside
\* strings and comments, and no token but a string has a blank, a line feed
\* or a '#' in its value.
C26_TokensOfSource ==
    (lexer.status = "returned" /\ lexer.result >= 0) =>
        /\ lexer.result = Len(lexer.tokens)
        /\ TokensOfType("KUNYU_TOKEN_EOF") = {Len(lexer.tokens)}
        /\ Cardinality(TokensOfType("KUNYU_TOKEN_NEWLINE"))
              = Cardinality(LineFeedsOutside(lexer.source))
        /\ \A k \in 1..Len(lexer.tokens) :
              lexer.tokens[k].type \notin {"KUNYU_TOKEN_STRING", "KUNYU_TOKEN_NEWLINE"} =>
                 \A j \in 1..Len(lexer.tokens[k].value) :
                    lexer.tokens[k].value[j] \notin {" ", "\n", "#"}

\* The 1-based position of the first byte from p on that skip_whitespace does
\* not skip, Len(source) + 1 when there is none.
RECURSIVE NextStart(_, _)
NextStart(source, p) ==
    IF p <= Len(source) /\ source[p] \in {" ", "\t", "\r"} THEN NextStart(source, p + 1)
    ELSE p

\* Line and column of the byte at position p: lines end with a line feed,
\* columns count bytes from 1.
LineOf(source, p) == 1 + Cardinality({k \in 1..(p - 1) : source[k] = "\n"})

ColumnOf(source, p) ==
    p - (IF \E k \in 1..(p - 1) : source[k] = "\n"
         THEN CHOOSE k \in 1..(p - 1) :
                 source[k] = "\n" /\ \A j \in (k + 1)..(p - 1) : source[j] # "\n"
         ELSE 0)

\* The byte at p starts no token: it is none of the bytes read_next_token
\* knows, or a continuation byte the C library does not take for a letter.
StartsNoToken(p) ==
    \/ lexer.source[p] = "@"
    \/ lexer.source[p] = "A9" /\ ~lexer.high_alnum

\* C27: when the byte a token would start with starts no token,
\* lexer_tokenize returns -1 at once; whenever it returns -1 the error is a
\* lexer error with the line and column of that byte and no token was added
\* by the reading that failed; after lexer_tokenize has returned nothing more
\* is read.
C27_UnknownCharacter ==
    [][IF lexer.status = "reading"
       THEN LET q == NextStart(lexer.source, lexer.pos + 1)
            IN  /\ (q <= Len(lexer.source) /\ StartsNoToken(q)) => lexer'.result = -1
                /\ lexer'.result = -1 =>
                      /\ lexer'.status = "returned"
                      /\ q <= Len(lexer.source)
                      /\ lexer'.error.code = KUNYU_ERROR_LEXER
                      /\ lexer'.error.line = LineOf(lexer.source, q)
                      /\ lexer'.error.column = ColumnOf(lexer.source, q)
                      /\ lexer'.tokens = lexer.tokens
       ELSE lexer.status = "idle"]_vars

\* lexer_tokenize failed on a byte of the second line, after two tokens.
C27_Witness ==
    /\ lexer.status = "returned"
    /\ lexer.result = -1
    /\ lexer.error.line = 2
    /\ Len(lexer.tokens) = 2
    /\ lexer.source[Len(lexer.source)] = "@"

\* The token arrays of up to MaxPhrases pieces that are a complete statement,
\* a newline, the head of an if statement with the '{' of its block, or '}'.
BlockInputs ==
    {TokenArray(Flatten(ps)) :
        ps \in SeqsUpTo({<<KW("if"), DL("("), ID("x"), DL(")"), DL("{")>>,
                         <<KW("print"), ID("x"), DL(";")>>,
                         <<KW("constant"), ID("x"), OP("="), NM("1"), DL(";")>>,
                         <<KW("return"), NM("1"), DL(";")>>,
                         <<NL>>,
                         <<DL("}")>>}, MaxPhrases)}

\* Number of '{' less number of '}' among the first k tokens.
Braces(k) ==
    Cardinality({j \in 1..k : tokens[j].type = "KUNYU_TOKEN_DELIMITER"
                                /\ tokens[j].value = "{"})
    - Cardinality({j \in 1..k : tokens[j].type = "KUNYU_TOKEN_DELIMITER"
                                  /\ tokens[j].value = "}"})

\* The tokens are statements and blocks of which one at least is not closed
\* where the tokens end.
UnclosedBlock ==
    /\ tokens \in BlockInputs
    /\ \A k \in 1..Len(tokens) : Braces(k) >= 0
    /\ Braces(Len(tokens)) > 0

\* C28: when the tokens end in a block that was not closed, parser_parse
\* returns no tree and the error is the parser error of the block that is
\* not closed.
C28_UnclosedBlockError ==
    (parsed.done /\ UnclosedBlock) =>
        /\ parsed.ast = NoNode
        /\ parsed.error.code = KUNYU_ERROR_PARSER
        /\ parsed.error.message = "block not closed, expected '}'"

-----------------------------------------------------------------------------
(* Properties of the REPL, stated of SpecRepl *)

\* C29: when an input line is given to interpreter_execute after another has
\* been executed, the variables of the global scope, with their values, and
\* the functions of the function table are those the earlier lines left.
C29_GlobalsPersist ==
    [][(phase = "done" /\ phase' = "running") =>
         /\ current_scope' = current_scope
         /\ function_table' = function_table]_vars

\* How many times an address occurs in a sequence of addresses.
Times(addresses, a) == Cardinality({k \in DOMAIN addresses : addresses[k] = a})

\* C30: when parser_parse has returned, every AST node the parse created has
\* either been freed exactly once and is no part of the tree returned, or has
\* not been freed and is reached from the root returned through exactly one
\* parent; nothing was freed that the parse did not create.  So a parse that
\* returns no AST has freed every node it created, exactly once, and the tree
\* of a parse that succeeds shares no node.
C30_NodesFreedOrOwnedOnce ==
    parsed.done =>
        /\ \A a \in 1..parsed.created :
              Times(parsed.freed, a) + Times(parsed.nodes, a) = 1
        /\ \A k \in DOMAIN parsed.freed : parsed.freed[k] \in 1..parsed.created
        /\ parsed.ast = NoNode => parsed.nodes = <<>>

\* A parse failed in the right operand of a binary expression whose left
\* operand is itself a binary expression: the three nodes of the left operand
\* and the program node were freed.
C30_Witness ==
    /\ parsed.done
    /\ parsed.ast = NoNode
    /\ parsed.error.code = KUNYU_ERROR_PARSER
    /\ parsed.created >= 4
    /\ Len(parsed.freed) = parsed.created
    /\ Len(tokens) >= 5
    /\ tokens[1].type = "KUNYU_TOKEN_NUMBER"
    /\ tokens[2].type = "KUNYU_TOKEN_OPERATOR"
    /\ tokens[3].type = "KUNYU_TOKEN_NUMBER"
    /\ tokens[4].type = "KUNYU_TOKEN_OPERATOR"
    /\ tokens[5].type \in {"KUNYU_TOKEN_DELIMITER", "KUNYU_TOKEN_EOF"}
    /\ parsed.freed = <<2, 3, 4, 1>>

\* A parse failed inside the block of an if statement, the condition parsed.
C30_WitnessIf ==
    /\ parsed.done
    /\ parsed.ast = NoNode
    /\ parsed.created >= 3
    /\ Len(parsed.freed) = parsed.created
    /\ tokens[1].value = "if"
    /\ parsed.current > 5

\* A parse succeeded after a statement was freed: some nodes freed, the others
\* in the tree.
C30_WitnessTree ==
    /\ parsed.done
    /\ parsed.ast # NoNode
    /\ parsed.freed # <<>>
    /\ Len(parsed.nodes) >= 3

-----------------------------------------------------------------------------
(* Properties of lists in cycles, stated of SpecCycles *)

\* The objects the slots of a list point to.
ItemsOf(O, o) ==
    IF O[o].type = "TYPE_LIST" THEN {O[o].items[k] : k \in DOMAIN O[o].items}
    ELSE {}

\* The objects reached from those of S in up to n steps from list to item.
RECURSIVE ReachedFrom(_, _, _)
ReachedFrom(O, S, n) ==
    IF n = 0 THEN S
    ELSE ReachedFrom(O, S \cup UNION {ItemsOf(O, s) : s \in S}, n - 1)

\* The list contains itself, directly or through other lists.
ContainsItself(O, o) == o \in ReachedFrom(O, ItemsOf(O, o), Len(O))

\* C31: a list that contains itself, directly or through another list, is
\* never destroyed: its count exceeds the number of references its outside
\* holders own, so that it stays at 1 or more when all of them have released
\* it, and it was not freed.  No count is below zero and no object was freed
\* more than once.
C31_CyclesNeverDestroyed ==
    \A o \in 1..Len(heap.objs) :
        /\ heap.objs[o].ref_count >= 0
        /\ heap.objs[o].frees <= 1
        /\ ContainsItself(heap.objs, o) =>
              /\ heap.objs[o].ref_count >= heap.held[o] + 1
              /\ ~heap.objs[o].freed
              /\ heap.objs[o].frees = 0

\* Two lists that contain each other, each released by every outside holder.
C31_Witness ==
    \E a \in 1..Len(heap.objs), b \in 1..Len(heap.objs) :
        /\ a # b
        /\ b \in ItemsOf(heap.objs, a)
        /\ a \in ItemsOf(heap.objs, b)
        /\ heap.held[a] = 0
        /\ heap.held[b] = 0
        /\ heap.last.op = "py_decref"

\* A list that holds itself in a slot, released by every outside holder.
C31_WitnessDirect ==
    \E a \in 1..Len(heap.objs) :
        /\ a \in ItemsOf(heap.objs, a)
        /\ heap.held[a] = 0
        /\ heap.objs[a].ref_count >= 1
        /\ heap.last.op = "py_decref"

\* A cycle of two lists was broken by py_list_set and the list that lost its
\* last holder was destroyed.
C31_WitnessBroken ==
    \E a \in 1..Len(heap.objs), b \in 1..Len(heap.objs) :
        /\ a # b
        /\ heap.last.op = "py_list_set"
        /\ heap.objs[b].freed
        /\ a \in ItemsOf(heap.objs, b)
        /\ ~heap.objs[a].freed

-----------------------------------------------------------------------------
(* Properties of the error slot, stated of Spec *)

\* C32: during one interpreter_execute the error slot is written at most
\* once: once it holds an error, no step of the evaluation changes its code
\* or its message before interpreter_execute returns.
C32_FirstErrorWins ==
    [][(phase = "running" /\ interpreter.error.code # KUNYU_OK) =>
            interpreter'.error = interpreter.error]_vars

\* An error recorded inside a call of a user function, in a block, has been
\* handed up to the statement list of the program.
C32_Witness ==
    /\ phase = "running"
    /\ interpreter.error.code = KUNYU_ERROR_RUNTIME
    /\ Len(stack) = 1
    /\ Top.fn = "execute_program"
    /\ Top.pc # "start"
    /\ ~ret.b
    /\ \E k \in 1..Len(root.kids) :
          root.kids[k].type \in {"NODE_BLOCK", "NODE_IF", "NODE_LOOP", "NODE_PRINT"}

-----------------------------------------------------------------------------
(* Properties of the frames of blocks and loop bodies, stated of Spec *)

\* The innermost block being executed: the index in the stack of the last
\* activation of execute_block, 0 when there is none.
InnermostBlock ==
    IF \E k \in 1..Len(stack) : stack[k].fn = "execute_block"
    THEN CHOOSE k \in 1..Len(stack) :
            /\ stack[k].fn = "execute_block"
            /\ \A j \in (k + 1)..Len(stack) : stack[j].fn # "execute_block"
    ELSE 0

\* A declaration, its initializer evaluated, that is a statement of the body
\* of a loop, no statement before it in the body declaring the same name.
DeclaringInLoopBody ==
    /\ Declaring
    /\ InnermostBlock > 1
    /\ LET b == stack[InnermostBlock]
       IN  /\ b.i >= 1
           /\ b.node.kids[b.i] = Top.node
           /\ \A j \in (InnermostBlock + 1)..Len(stack) :
                 stack[j].fn \in {"execute_statement", "exec_var_decl"}
           /\ \E j \in 1..(InnermostBlock - 1) :
                 /\ stack[j].fn = "exec_loop_stmt"
                 /\ stack[j].node.kids[2] = b.node
           /\ \A j \in 1..(b.i - 1) :
                 ~(b.node.kids[j].type = "NODE_VARDECL"
                   /\ b.node.kids[j].name = Top.node.name)

\* C33: every execution of a block, and so every iteration of a loop body,
\* runs in a frame of its own.  A block that starts puts an empty frame
\* before the chain; a block that returns takes its frame, with every binding
\* made in it, off the chain; between two iterations the loop leaves the
\* chain as it is.  A declaration in a loop body, the first of its name in
\* the body, succeeds on every iteration.
C33_FreshFramePerIteration ==
    [][/\ (/\ phase = "running" /\ stack # <<>>
           /\ Top.fn = "execute_block" /\ Top.pc = "start"
           /\ Top.node.type = "NODE_BLOCK") =>
              current_scope' = IF Top.node.kids = <<>> THEN current_scope
                               ELSE <<<<>>>> \o current_scope
       /\ (Returns("execute_block") /\ Top.pc # "start") =>
              current_scope' = Tail(current_scope)
       /\ (/\ phase = "running" /\ stack # <<>>
           /\ Top.fn = "exec_loop_stmt" /\ Top.pc = "after_body") =>
              /\ current_scope' = current_scope
              /\ Len(current_scope) = Top.depth
       /\ DeclaringInLoopBody =>
              /\ ret'.b
              /\ interpreter'.error = interpreter.error
              /\ \E j \in 1..Len(current_scope'[1]) :
                    current_scope'[1][j].name = Top.node.name]_vars

\* The declaration of t in the body of `loop (x) { variable t = x; x = x - 1;; }`
\* is about to bind t on the second iteration: x was declared 2 and is 1.
C33_Witness ==
    /\ DeclaringInLoopBody
    /\ Top.node.name = "t"
    /\ root.kids[1] = create_var_decl("x", Num("2"), FALSE)
    /\ Bound("x")
    /\ BindingIn(Nearest("x"), "x").value = py_number_new(1, 1)
    /\ ~Holds(1, "t")

\* The entries of the builtin registry that carry the name.
EntriesNamed(name) == {k \in 1..Len(builtin_funcs) : builtin_funcs[k].name = name}

\* C34: across the interpreter_execute calls of the REPL the builtin registry
\* holds exactly one entry for each builtin name, whatever the number of calls
\* made so far, and it is empty once interpreter_cleanup has been called.
C34_RegistryOneEntryPerName ==
    /\ phase \in {"running", "done"} =>
          /\ Len(builtin_funcs) = Len(builtins_init(<<>>))
          /\ \A k \in 1..Len(builtin_funcs) :
                Cardinality(EntriesNamed(builtin_funcs[k].name)) = 1
    /\ phase = "exited" => builtin_funcs = <<>>

-----------------------------------------------------------------------------
(* Properties of the evaluator's references, stated of SpecRepl *)

\* A statement has just returned to the loop of execute_program or
\* execute_block, to exec_loop_stmt or to the call that ran it as a body, or
\* the whole program has returned.
StatementFinished ==
    /\ phase \in {"running", "done"}
    /\ stack # <<>> => stack[Len(stack)].pc \in {"after_statement", "after_body"}

RECURSIVE OperandsOf(_)

\* The operand and argument values that the expressions still being
\* evaluated on the stack keep in their C locals: `left` of a binary
\* expression whose right operand is under evaluation, `args` of a builtin
\* call whose later arguments are.
OperandsOf(frames) ==
    IF frames = <<>> THEN <<>>
    ELSE LET fr == Head(frames)
         IN  (IF fr.fn = "eval_binary_expr" /\ fr.pc = "after_right"
              THEN <<fr.left>>
              ELSE IF fr.fn = "eval_call_expr" /\ fr.pc = "builtin_argument"
              THEN fr.args
              ELSE <<>>) \o OperandsOf(Tail(frames))

TimesIn(seq, obj) == Cardinality({k \in 1..Len(seq) : seq[k] = obj})

\* C35: when a statement has finished, with success or with an error, no
\* temporary reference of it remains: no py_decref has released a reference
\* that was not there, and the only references that no binding, slot or
\* stored return value holds are the operands of the expressions around the
\* statement that are still being evaluated; after a top-level statement
\* there are none.
C35_ReferenceBalance ==
    /\ references.excess = 0
    /\ StatementFinished =>
          \A k \in 1..Len(references.owed) :
              TimesIn(references.owed, references.owed[k])
                  = TimesIn(OperandsOf(stack), references.owed[k])

-----------------------------------------------------------------------------
(* Properties of the arguments of a user-function call, stated of Spec *)

\* eval_call_expr has evaluated an argument that is a variable reference and
\* is about to bind its value to the parameter of the same position.
BindingVariableArgument ==
    /\ phase = "running"
    /\ stack # <<>>
    /\ Top.fn = "eval_call_expr"
    /\ Top.pc = "bind_argument"
    /\ ret.v # NULL
    /\ Top.node.kids[Top.i].type = "NODE_IDENTIFIER"

\* The scope chain of the caller: the chain as it was when the call started.
CallerScopes ==
    SubSeq(current_scope, Len(current_scope) - Top.depth + 1, Len(current_scope))

RECURSIVE ValueIn(_, _)

\* The value of the innermost binding of name in chain, NULL without one.
ValueIn(chain, name) ==
    IF chain = <<>> THEN NULL
    ELSE LET k == find_variable_in_scope(name, Head(chain))
         IN  IF k # 0 THEN Head(chain)[k].value ELSE ValueIn(Tail(chain), name)

\* C36: in a user-function call every argument is evaluated against the
\* caller's bindings: the value an argument `v` gives to its parameter is the
\* value of the caller's variable v, whatever parameters the call has bound
\* already for earlier arguments.
C36_ArgumentsSeeCallerBindings ==
    BindingVariableArgument =>
        ret.v = ValueIn(CallerScopes, Top.node.kids[Top.i].name)

-----------------------------------------------------------------------------
(* Properties of the function table across inputs, stated of SpecRepl.     *)
(* execute_and_print gives each tree to ast_free once interpreter_execute  *)
(* has returned: while input j is evaluated the trees of repl[1..j-1] are  *)
(* freed and root, the tree of input j, is not.                            *)

RECURSIVE Inside(_, _)

\* node is tree or one of the nodes below it.
Inside(node, tree) ==
    \/ node = tree
    \/ \E k \in 1..Len(tree.kids) : Inside(node, tree.kids[k])

\* A call on the stack is executing the body of a user function.
ExecutingBody(k) ==
    stack[k].fn = "eval_call_expr" /\ stack[k].pc = "after_body"

-----------------------------------------------------------------------------
(* Properties of the statement loops of the parser, stated of SpecParser *)

\* C38: parser_parse returns on every token sequence that ends with the
\* end-of-file token: every turn of the statement loops of parse_program and
\* parse_block either leaves the parser at a later token than it started at,
\* or records an error and is the loop's last; a turn whose statement parser
\* returned no node and recorded no error has consumed a token as well.  The
\* loops therefore take no more turns than there are tokens, and the parser
\* never reads past the end-of-file token.
C38_EveryTurnAdvancesOrStops ==
    parsed.done =>
        /\ \A k \in 1..Len(parsed.turns) :
              \/ parsed.turns[k].to > parsed.turns[k].from
              \/ parsed.turns[k].stopped /\ parsed.turns[k].error # KUNYU_OK
        /\ Len(parsed.turns) <= Len(tokens)
        /\ parsed.current < Len(tokens)

\* A statement parser returned no node and recorded no error, and the loop of
\* parse_program went on to a later statement.
C38_Witness ==
    /\ parsed.done
    /\ \E k \in 1..Len(parsed.turns) :
          /\ ~parsed.turns[k].node
          /\ parsed.turns[k].error = KUNYU_OK
          /\ ~parsed.turns[k].stopped
          /\ parsed.turns[k].to > parsed.turns[k].from
          /\ k < Len(parsed.turns)

\* A block reached the end of file with no statement in it: the turn of its
\* loop consumed nothing, recorded the error and ended the loop.
C38_WitnessStops ==
    /\ parsed.done
    /\ \E k \in 1..Len(parsed.turns) :
          /\ parsed.turns[k].to = parsed.turns[k].from
          /\ parsed.turns[k].stopped
          /\ parsed.turns[k].error # KUNYU_OK

-----------------------------------------------------------------------------
(* Properties of a return outside any function call, stated of Spec *)

\* A return statement has executed and no user-function body is running: the
\* return was at top level, possibly inside the blocks of if and loop
\* statements.
ReturnedAtTopLevel ==
    /\ phase = "running"
    /\ interpreter.has_return
    /\ ~InCall

\* C39: a return statement executed outside any function call ends the
\* program with success.  From the moment it has executed, every step is a
\* return of the running function to its caller with the value true (so no
\* later statement is started and nothing more is printed), the return flag
\* stays set, and interpreter_execute returns true with the flag still set.
C39_TopLevelReturnEndsProgram ==
    [][ReturnedAtTopLevel =>
          /\ interpreter'.has_return
          /\ interpreter'.error = interpreter.error
          /\ output' = output
          /\ IF stack = <<>>
             THEN phase' = "done" /\ result' = TRUE
             ELSE /\ stack' = SubSeq(stack, 1, Len(stack) - 1)
                  /\ ret'.b = TRUE]_vars

\* interpreter_execute has returned true after `loop (x) { if (x) { return x; } }`
\* returned at top level; the statement after the loop, a print, did not run.
C39_Witness ==
    /\ phase = "done"
    /\ result = TRUE
    /\ interpreter.has_return
    /\ interpreter.return_value = py_number_new(2, 1)
    /\ output = <<>>
    /\ \E k \in 1..(Len(root.kids) - 1) :
          /\ root.kids[k] = ReturnInLoop
          /\ root.kids[k + 1].type = "NODE_PRINT"

====
